---- MODULE Spec2Model ----
(***************************************************************************)
(* A model of the CheckFront calendar loader:                              *)
(*   - the calendar reconciler  (src/src/gcal_client.py, gcal_sync.py)     *)
(*   - the slot aggregator      (src/src/cf_middle_layer.py)               *)
(* The specifications share the variables: SpecSync runs sync_calendar     *)
(* against a calendar service, SpecDiff applies _diff_for_patch to pairs   *)
(* of events, SpecAgg runs build_buckets / extract_checkfront_data and     *)
(* SpecOcc applies _item_occurrences to one descriptor.                    *)
(***************************************************************************)
EXTENDS Integers, Sequences, FiniteSets, TLC

VARIABLES
    \* ---- calendar service and one caller of sync_calendar
    cal, desired, delete_orphans, run, pc, existing_map, idx, dpending,
    inserted, patched, unchanged, deleted, results, calls, listed,
    \* ---- _diff_for_patch applied to a pair of events
    d_stage, d_cur, d_des, d_patch,
    \* ---- slot aggregation
    a_stage, items, events, bookings, time_rules, unavail_by_item,
    unavail_by_category, buckets, ev_idx, bk_idx, itemcategory, unlimited,
    occ_log, flat, reads,
    \* ---- _item_occurrences applied to one descriptor
    o_stage, o_item, o_ws, o_out,
    \* ---- a sync_calendar run that was interrupted
    aborted,
    \* ---- the customer cache of one CheckfrontClient
    c_cache, c_calls,
    \* ---- the routing of slots to calendars by tag
    r_stage, r_cfg, r_tags, r_slots, r_resolved, r_ids, r_filtered,
    \* ---- the customers and booking lines of one aggregate, and its rollup
    g_stage, g_dir, g_lines, g_slot, g_out,
    p_stage, p_kind, p_src, p_page, p_req, p_out,
    k_stage, k_slots, k_keys, k_codes,
    t_stage, t_rows, t_cal

syncvars == <<cal, desired, delete_orphans, run, pc, existing_map, idx, dpending,
              inserted, patched, unchanged, deleted, results, calls, listed>>
diffvars == <<d_stage, d_cur, d_des, d_patch>>
aggvars == <<a_stage, items, events, bookings, time_rules, unavail_by_item,
             unavail_by_category, buckets, ev_idx, bk_idx, itemcategory, unlimited,
             occ_log, flat, reads>>
occvars == <<o_stage, o_item, o_ws, o_out>>
custvars == <<c_cache, c_calls>>
routevars == <<r_stage, r_cfg, r_tags, r_slots, r_resolved, r_ids, r_filtered>>
rollvars == <<g_stage, g_dir, g_lines, g_slot, g_out>>
pagervars == <<p_stage, p_kind, p_src, p_page, p_req, p_out>>
keyvars == <<k_stage, k_slots, k_keys, k_codes>>
tripvars == <<t_stage, t_rows, t_cal>>
morevars == <<rollvars, pagervars, keyvars, tripvars>>
extvars == <<aborted, custvars, routevars, morevars>>
vars == <<syncvars, diffvars, aggvars, occvars, extvars>>

(***************************************************************************)
(* Python values.  An optional value (None, or a value) is a sequence of   *)
(* length 0 or 1; a str is a sequence of one-character strings; a dict of  *)
(* private properties is the set of its <<name, value>> pairs.             *)
(***************************************************************************)
None == <<>>
Some(x) == <<x>>

\* str.strip / str.rstrip: whitespace is the blank.
RECURSIVE RStrip(_)
RStrip(s) == IF s = <<>> THEN <<>>
             ELSE IF s[Len(s)] = " " THEN RStrip(SubSeq(s, 1, Len(s) - 1))
             ELSE s

RECURSIVE LStrip(_)
LStrip(s) == IF s = <<>> THEN <<>>
             ELSE IF s[1] = " " THEN LStrip(Tail(s))
             ELSE s

Strip(s) == LStrip(RStrip(s))

\* (x or ""), (x or None) for an optional str; (x or None) for an optional set.
OrEmptyStr(o) == IF o = None THEN <<>> ELSE o[1]
OrNoneStr(o) == IF o = None THEN None ELSE IF o[1] = <<>> THEN None ELSE o
OrNoneSet(o) == IF o = None THEN None ELSE IF o[1] = {} THEN None ELSE o

\* E-mail addresses are numbers: 1 = "a@x", 2 = "b@x", 11 = "A@x", 12 = "B@x";
\* str.lower maps 11, 12 to 1, 2 and the order of the numbers is that of the
\* lower-cased strings.
Lower(e) == IF e > 10 THEN e - 10 ELSE e

RECURSIVE SortedSeq(_)
SortedSeq(S) == IF S = {} THEN <<>>
                ELSE LET m == CHOOSE x \in S : \A y \in S : x <= y
                     IN <<m>> \o SortedSeq(S \ {m})

\* The attendees of a raw event: an optional list of attendees, each an
\* optional e-mail.  Normalised: the sorted list of the distinct lower-cased
\* e-mails, None when there is none.
NormAttendees(att) ==
    IF att = None THEN None
    ELSE IF att[1] = <<>> THEN None
    ELSE LET addrs == {Lower(att[1][i][1]) : i \in {j \in 1..Len(att[1]) : att[1][j] # None}}
         IN IF addrs = {} THEN None ELSE Some(SortedSeq(addrs))

(***************************************************************************)
(* _norm_event_view: the projection of an event onto the managed fields.   *)
(* (The two copies, gcal_client.py:307 and gcal_sync.py:140, are the same.)*)
(***************************************************************************)
_norm_event_view(e) ==
    [ summary     |-> Strip(OrEmptyStr(e.summary)),
      description |-> RStrip(OrEmptyStr(e.description)),
      location    |-> OrNoneStr(e.location),
      colorId     |-> OrNoneStr(e.colorId),
      start       |-> [dateTime |-> e.start.dateTime, timeZone |-> e.start.timeZone],
      end         |-> [dateTime |-> e.end.dateTime, timeZone |-> e.end.timeZone],
      reminders   |-> OrNoneSet(e.reminders),
      priv        |-> IF e.priv = None THEN {} ELSE e.priv[1],
      attendees   |-> NormAttendees(e.attendees) ]

_norm_body_view(b) == _norm_event_view(b)

\* A mutant of SimpleKeys: the description is not compared.
SimpleKeysNoDescription == {"summary", "location", "colorId", "reminders"}

\* The keys of a patch; "extendedProperties" carries the private bag (priv).
SimpleKeys == {"summary", "description", "location", "colorId", "reminders"}
StartEndKeys == {"start", "end"}
PatchKeys == {"summary", "description", "location", "colorId", "reminders", "start", "end",
              "extendedProperties", "attendees"}

\* view.get(key) as an optional value: None is Python's None.
ViewGet(v, key) ==
    CASE key = "summary" -> Some(v.summary)
      [] key = "description" -> Some(v.description)
      [] key = "location" -> v.location
      [] key = "colorId" -> v.colorId
      [] key = "reminders" -> v.reminders
      [] key = "start" -> Some(v.start)
      [] key = "end" -> Some(v.end)
      [] key = "extendedProperties" -> Some(v.priv)
      [] key = "attendees" -> v.attendees

\* The keys _diff_for_patch puts into patch before it drops the None values.
DiffKeys(current_view, desired_view) ==
    {key \in SimpleKeys : ViewGet(current_view, key) # ViewGet(desired_view, key)}
    \cup {key \in StartEndKeys : ViewGet(current_view, key) # ViewGet(desired_view, key)}
    \cup (IF current_view.priv # desired_view.priv THEN {"extendedProperties"} ELSE {})
    \cup (IF current_view.attendees # desired_view.attendees THEN {"attendees"} ELSE {})

\* A mutant of DropNone: the None values are sent.
DropNoneKeepsAll(patch) == patch

\* return {k: v for k, v in patch.items() if v is not None}
DropNone(patch) == [k \in {x \in DOMAIN patch : patch[x] # None} |-> patch[k]]

\* A mutant of _diff_for_patch: where the desired view has no value the patch
\* echoes the value of the current entry.
_diff_for_patch_merging(current_view, desired_view) ==
    DropNone([key \in DiffKeys(current_view, desired_view) |->
                 IF ViewGet(desired_view, key) # None
                 THEN ViewGet(desired_view, key)
                 ELSE ViewGet(current_view, key)])

_diff_for_patch(current_view, desired_view) ==
    DropNone([key \in DiffKeys(current_view, desired_view) |-> ViewGet(desired_view, key)])

(***************************************************************************)
(* The calendar service (the external collaborator of spec section 6):     *)
(* entries by caller-chosen identifier; list the owned entries of a        *)
(* window; insert (409 when the identifier is taken), patch and delete by  *)
(* identifier (404 when there is no such entry).                           *)
(***************************************************************************)
NumKeys == 2
MaxDesired == 2
MaxRuns == 2

Keys == 1..NumKeys

time_min == 0
time_max == 4

SourceMarker == <<"source", "checkfront-sync">>

BaseBody ==
    [ summary     |-> Some(<<"a">>),
      description |-> Some(<<"d">>),
      location    |-> None,
      colorId     |-> Some(<<"2">>),
      start       |-> [dateTime |-> Some(1), timeZone |-> Some("tz")],
      end         |-> [dateTime |-> Some(2), timeZone |-> Some("tz")],
      reminders   |-> None,
      priv        |-> Some({SourceMarker, <<"booked", "0">>}),
      attendees   |-> None ]

\* Desired bodies: the base, one with another title and booked count, one
\* whose start lies after time_max (a slot beyond the fetch window).
DesiredBodies ==
    { BaseBody,
      [BaseBody EXCEPT !.summary = Some(<<"b">>),
                       !.priv = Some({SourceMarker, <<"booked", "1">>})],
      [BaseBody EXCEPT !.start = [dateTime |-> Some(5), timeZone |-> Some("tz")],
                       !.end = [dateTime |-> Some(6), timeZone |-> Some("tz")]] }

\* Entries the calendar may hold at the start: the base; the base with
\* trailing blanks; the base with a location; an entry of somebody else
\* (no ownership marker).
InitialEvents ==
    { BaseBody,
      [BaseBody EXCEPT !.summary = Some(<<"a", " ">>), !.description = Some(<<"d", " ">>)],
      [BaseBody EXCEPT !.location = Some(<<"x">>)],
      [BaseBody EXCEPT !.priv = None, !.reminders = Some({"popup"})] }

SeqsUpTo(S, n) == UNION {[1..m -> S] : m \in 0..n}

\* events().list(timeMin, timeMax, privateExtendedProperty="source=checkfront-sync")
Owned(ev) == ev.priv # None /\ SourceMarker \in ev.priv[1]
InWindow(ev) == /\ ev.start.dateTime # None
                /\ time_min <= ev.start.dateTime[1]
                /\ ev.start.dateTime[1] < time_max
SvcList(c) == {k \in Keys : c[k] # None /\ Owned(c[k][1]) /\ InWindow(c[k][1])}

\* The answer of the service to insert / patch / delete of identifier k.
SvcInsertStatus(c, k) == IF c[k] # None THEN 409 ELSE 200
SvcPatchStatus(c, k) == IF c[k] = None THEN 404 ELSE 200
SvcDeleteStatus(c, k) == IF c[k] = None THEN 404 ELSE 200

\* A patch replaces the fields it names and leaves the others.
PatchedField(ev, patch, key) == IF key \in DOMAIN patch THEN patch[key] ELSE ev[key]
SvcApplyPatch(ev, patch) ==
    [ summary     |-> PatchedField(ev, patch, "summary"),
      description |-> PatchedField(ev, patch, "description"),
      location    |-> PatchedField(ev, patch, "location"),
      colorId     |-> PatchedField(ev, patch, "colorId"),
      start       |-> IF "start" \in DOMAIN patch THEN patch["start"][1] ELSE ev.start,
      end         |-> IF "end" \in DOMAIN patch THEN patch["end"][1] ELSE ev.end,
      reminders   |-> PatchedField(ev, patch, "reminders"),
      priv        |-> IF "extendedProperties" \in DOMAIN patch
                      THEN patch["extendedProperties"] ELSE ev.priv,
      attendees   |-> IF "attendees" \in DOMAIN patch
                      THEN Some([i \in 1..Len(patch["attendees"][1]) |->
                                    Some(patch["attendees"][1][i])])
                      ELSE ev.attendees ]

\* A whole body sent as a patch (the 409 fallback sends body=desired): the
\* keys the body holds replace the entry's.
BodyKeys(b) ==
    {"start", "end"}
    \cup {key \in {"summary", "description", "location", "colorId", "reminders",
                   "priv", "attendees"} : b[key] # None}
SvcApplyBody(ev, b) ==
    [ summary     |-> IF b.summary # None THEN b.summary ELSE ev.summary,
      description |-> IF b.description # None THEN b.description ELSE ev.description,
      location    |-> IF b.location # None THEN b.location ELSE ev.location,
      colorId     |-> IF b.colorId # None THEN b.colorId ELSE ev.colorId,
      start       |-> b.start,
      end         |-> b.end,
      reminders   |-> IF b.reminders # None THEN b.reminders ELSE ev.reminders,
      priv        |-> IF b.priv # None THEN b.priv ELSE ev.priv,
      attendees   |-> IF b.attendees # None THEN b.attendees ELSE ev.attendees ]

(***************************************************************************)
(* sync_calendar (gcal_client.py:172-243), one step per service call.      *)
(***************************************************************************)
\* fetch_existing_synced_events: {eventId: normalized_event} of the listing.
fetch_existing_synced_events(c) ==
    [k \in Keys |-> IF k \in SvcList(c) THEN Some(_norm_event_view(c[k][1])) ELSE None]

\* A mutant of active_ids: no identifier is active.
active_ids_empty(slots) == {}

\* active_ids = {eid for (eid, _) in slots}
active_ids(slots) == {slots[i].event_id : i \in 1..Len(slots)}

\* A mutant of IsOrphan: every listed entry is taken for an orphan.
IsOrphanAlways(existing_id, slots) == TRUE

\* if existing_id not in active_ids
IsOrphan(existing_id, slots) == existing_id \notin active_ids(slots)

\* A mutant of IsConflict: no status is taken for a conflict.
IsConflictNever(status) == FALSE

\* getattr(e.resp, "status", None) == 409
IsConflict(status) == status = 409

\* A mutant of PassAfter: the delete pass runs before the upsert pass.
PassAfterDeleteFirst(p) == CASE p = "fetch" -> "delete"
                             [] p = "delete" -> "upsert"
                             [] p = "upsert" -> "done"

\* The passes of a run in the order of the code: the fetch, the upsert pass,
\* the delete pass, the return.
PassAfter(p) == CASE p = "fetch" -> "upsert"
                  [] p = "upsert" -> "delete"
                  [] p = "delete" -> "done"

\* A service call as the run issued it; slot is the index of the desired entry
\* it was issued for (0: the delete pass).
Call(op, key, slot, status, sent) ==
    [op |-> op, key |-> key, slot |-> slot, status |-> status, sent |-> sent]
Result(event_id, status) == [event_id |-> event_id, status |-> status]

syncrun == <<existing_map, idx, dpending, inserted, patched, unchanged, deleted, results, calls,
            listed>>

\* A mutant of Snapshot: the calendar is listed again for every lookup.
SnapshotFresh(m, c) == fetch_existing_synced_events(c)

\* existing_map as the passes read it: the map the run fetched at its start
Snapshot(m, c) == m

Fetch ==
    /\ pc = "fetch"
    /\ existing_map' = fetch_existing_synced_events(cal)
    /\ listed' = listed + 1
    /\ idx' = 1
    /\ pc' = PassAfter("fetch")
    /\ dpending' = {k \in Keys : fetch_existing_synced_events(cal)[k] # None}
    /\ UNCHANGED <<cal, desired, delete_orphans, run, inserted, patched, unchanged,
                   deleted, results, calls>>

\* The answers an insert can get: the service's, or a transport failure.
InsertStatuses(c, k) == {SvcInsertStatus(c, k), 500}

\* One iteration of "for event_id, desired in slots" taking the insert branch.
UpsertInsert ==
    /\ pc = "upsert"
    /\ idx <= Len(desired)
    /\ LET event_id == desired[idx].event_id
           body == desired[idx].body
       IN /\ Snapshot(existing_map, cal)[event_id] = None
          /\ \E status \in InsertStatuses(cal, event_id) :
             \/ \* the insert succeeds
                /\ status = 200
                /\ cal' = [cal EXCEPT ![event_id] = Some(body)]
                /\ inserted' = inserted + 1
                /\ results' = Append(results, Result(event_id, "inserted"))
                /\ calls' = Append(calls, Call("insert", event_id, idx, status, BodyKeys(body)))
                /\ idx' = idx + 1
                /\ UNCHANGED <<pc, patched>>
             \/ \* HttpError 409: patch with the desired body
                /\ status # 200
                /\ IsConflict(status)
                /\ LET pstatus == SvcPatchStatus(cal, event_id)
                   IN IF pstatus = 200
                      THEN /\ cal' = [cal EXCEPT ![event_id] =
                                         Some(SvcApplyBody(cal[event_id][1], body))]
                           /\ patched' = patched + 1
                           /\ results' = Append(results, Result(event_id, "patched"))
                           /\ calls' = calls \o
                                 <<Call("insert", event_id, idx, status, BodyKeys(body)),
                                   Call("patch", event_id, idx, pstatus, BodyKeys(body))>>
                           /\ idx' = idx + 1
                           /\ UNCHANGED <<pc, inserted>>
                      ELSE /\ calls' = calls \o
                                 <<Call("insert", event_id, idx, status, BodyKeys(body)),
                                   Call("patch", event_id, idx, pstatus, BodyKeys(body))>>
                           /\ pc' = "raised"
                           /\ UNCHANGED <<cal, inserted, patched, results, idx>>
             \/ \* any other HttpError: raised
                /\ status # 200
                /\ ~IsConflict(status)
                /\ calls' = Append(calls, Call("insert", event_id, idx, status, BodyKeys(body)))
                /\ pc' = "raised"
                /\ UNCHANGED <<cal, inserted, patched, results, idx>>
    /\ UNCHANGED <<desired, delete_orphans, run, existing_map, dpending, unchanged, deleted,
                   listed>>

\* One iteration taking the compare branch: patch only when changed.
UpsertCompare ==
    /\ pc = "upsert"
    /\ idx <= Len(desired)
    /\ LET event_id == desired[idx].event_id
           desired_view == _norm_body_view(desired[idx].body)
           current_view == Snapshot(existing_map, cal)[event_id]
       IN /\ current_view # None
          /\ LET patch == _diff_for_patch(current_view[1], desired_view)
                 pstatus == SvcPatchStatus(cal, event_id)
             IN \/ /\ DOMAIN patch # {}
                   /\ IF pstatus = 200
                      THEN /\ cal' = [cal EXCEPT ![event_id] =
                                         Some(SvcApplyPatch(cal[event_id][1], patch))]
                           /\ patched' = patched + 1
                           /\ results' = Append(results, Result(event_id, "patched"))
                           /\ idx' = idx + 1
                           /\ UNCHANGED pc
                      ELSE /\ pc' = "raised"
                           /\ UNCHANGED <<cal, patched, results, idx>>
                   /\ calls' = Append(calls, Call("patch", event_id, idx, pstatus, DOMAIN patch))
                   /\ UNCHANGED unchanged
                \/ /\ DOMAIN patch = {}
                   /\ unchanged' = unchanged + 1
                   /\ results' = Append(results, Result(event_id, "unchanged"))
                   /\ idx' = idx + 1
                   /\ UNCHANGED <<cal, pc, patched, calls>>
    /\ UNCHANGED <<desired, delete_orphans, run, existing_map, dpending, inserted, deleted,
                   listed>>

\* The upsert loop is exhausted.
EndUpsert ==
    /\ pc = "upsert"
    /\ idx > Len(desired)
    /\ pc' = PassAfter("upsert")
    /\ UNCHANGED <<cal, desired, delete_orphans, run, syncrun>>

\* One iteration of "for existing_id in existing_map.keys()" (the listing
\* order is the service's: any).
DeleteStep ==
    /\ pc = "delete"
    /\ delete_orphans
    /\ \E existing_id \in dpending :
          /\ dpending' = dpending \ {existing_id}
          /\ IF IsOrphan(existing_id, desired)
             THEN LET dstatus == SvcDeleteStatus(cal, existing_id)
                  IN /\ calls' = Append(calls, Call("delete", existing_id, 0, dstatus, {}))
                     /\ IF dstatus = 200
                        THEN /\ cal' = [cal EXCEPT ![existing_id] = None]
                             /\ deleted' = deleted + 1
                             /\ results' = Append(results, Result(existing_id, "deleted"))
                             /\ UNCHANGED pc
                        ELSE /\ pc' = "raised"
                             /\ UNCHANGED <<cal, deleted, results>>
             ELSE UNCHANGED <<cal, calls, deleted, results, pc>>
    /\ UNCHANGED <<desired, delete_orphans, run, existing_map, idx, inserted, patched, unchanged,
                   listed>>

\* The delete pass is over (or was not asked for).
EndDelete ==
    /\ pc = "delete"
    /\ ~delete_orphans \/ dpending = {}
    /\ pc' = PassAfter("delete")
    /\ UNCHANGED <<cal, desired, delete_orphans, run, syncrun>>

\* The caller runs sync_calendar again with the same slots.
Rerun ==
    /\ pc = "done"
    /\ run < MaxRuns
    /\ run' = run + 1
    /\ pc' = "fetch"
    /\ existing_map' = [k \in Keys |-> None]
    /\ idx' = 1
    /\ dpending' = {}
    /\ inserted' = 0
    /\ patched' = 0
    /\ unchanged' = 0
    /\ deleted' = 0
    /\ results' = <<>>
    /\ calls' = <<>>
    /\ listed' = 0
    /\ UNCHANGED <<cal, desired, delete_orphans>>

DiffIdle ==
    /\ d_stage = "idle"
    /\ d_cur = BaseBody
    /\ d_des = BaseBody
    /\ d_patch = <<>>

\* requests sent to the booking source, by resource
NoReads == [items |-> 0, events |-> 0, bookings |-> 0]

AggIdle ==
    /\ a_stage = "idle"
    /\ items = <<>>
    /\ events = <<>>
    /\ bookings = <<>>
    /\ time_rules = <<>>
    /\ unavail_by_item = <<>>
    /\ unavail_by_category = <<>>
    /\ buckets = <<>>
    /\ ev_idx = 0
    /\ bk_idx = 0
    /\ itemcategory = None
    /\ unlimited = None
    /\ occ_log = {}
    /\ flat = <<>>
    /\ reads = NoReads

OccIdle ==
    /\ o_stage = "idle"
    /\ o_item = <<>>
    /\ o_ws = 0
    /\ o_out = <<>>

CustIdle ==
    /\ c_cache = <<>>
    /\ c_calls = <<>>

RouteIdle ==
    /\ r_stage = "idle"
    /\ r_cfg = <<>>
    /\ r_tags = <<>>
    /\ r_slots = <<>>
    /\ r_resolved = <<>>
    /\ r_ids = <<>>
    /\ r_filtered = <<>>

RollIdle ==
    /\ g_stage = "idle"
    /\ g_dir = <<>>
    /\ g_lines = <<>>
    /\ g_slot = <<>>
    /\ g_out = <<>>

PagerIdle ==
    /\ p_stage = "idle"
    /\ p_kind = "idle"
    /\ p_src = <<>>
    /\ p_page = 0
    /\ p_req = <<>>
    /\ p_out = <<>>

KeyIdle ==
    /\ k_stage = "idle"
    /\ k_slots = <<>>
    /\ k_keys = <<>>
    /\ k_codes = <<>>

TripIdle ==
    /\ t_stage = "idle"
    /\ t_rows = <<>>
    /\ t_cal = <<>>

MoreIdle ==
    /\ RollIdle
    /\ PagerIdle
    /\ KeyIdle
    /\ TripIdle

\* every later subsystem at rest
ExtIdle ==
    /\ aborted = FALSE
    /\ CustIdle
    /\ RouteIdle
    /\ MoreIdle

SyncIdle ==
    /\ cal = [k \in Keys |-> None]
    /\ desired = <<>>
    /\ delete_orphans = FALSE
    /\ run = 0
    /\ pc = "idle"
    /\ existing_map = [k \in Keys |-> None]
    /\ idx = 1
    /\ dpending = {}
    /\ inserted = 0
    /\ patched = 0
    /\ unchanged = 0
    /\ deleted = 0
    /\ results = <<>>
    /\ calls = <<>>
    /\ listed = 0

InitSync ==
    /\ cal \in [Keys -> {None} \cup {Some(e) : e \in InitialEvents}]
    /\ desired \in SeqsUpTo([event_id : Keys, body : DesiredBodies], MaxDesired)
    /\ delete_orphans \in BOOLEAN
    /\ run = 1
    /\ pc = "fetch"
    /\ existing_map = [k \in Keys |-> None]
    /\ idx = 1
    /\ dpending = {}
    /\ inserted = 0
    /\ patched = 0
    /\ unchanged = 0
    /\ deleted = 0
    /\ results = <<>>
    /\ calls = <<>>
    /\ listed = 0
    /\ DiffIdle
    /\ AggIdle
    /\ OccIdle
    /\ ExtIdle

NextSync ==
    \/ Fetch /\ UNCHANGED <<diffvars, aggvars, occvars, extvars>>
    \/ UpsertInsert /\ UNCHANGED <<diffvars, aggvars, occvars, extvars>>
    \/ UpsertCompare /\ UNCHANGED <<diffvars, aggvars, occvars, extvars>>
    \/ EndUpsert /\ UNCHANGED <<diffvars, aggvars, occvars, extvars>>
    \/ DeleteStep /\ UNCHANGED <<diffvars, aggvars, occvars, extvars>>
    \/ EndDelete /\ UNCHANGED <<diffvars, aggvars, occvars, extvars>>
    \/ Rerun /\ UNCHANGED <<diffvars, aggvars, occvars, extvars>>

SpecSync == InitSync /\ [][NextSync]_vars

(***************************************************************************)
(* Claims about sync_calendar (checked under SpecSync).                    *)
(***************************************************************************)
CallIdx == 1..Len(calls)
Mutating == {"insert", "patch", "delete"}
NumCalls(k) == Cardinality({i \in CallIdx : calls[i].key = k /\ calls[i].op \in Mutating})
NumConflicts(k) == Cardinality({i \in CallIdx : calls[i].key = k /\ calls[i].op = "insert"
                                                 /\ calls[i].status = 409})
Occurrences(k) == Cardinality({j \in 1..Len(desired) : desired[j].event_id = k})
NoRepeatedKey == \A k \in Keys : Occurrences(k) <= 1
DeletedKeys == {calls[i].key : i \in {j \in CallIdx : calls[j].op = "delete"}}
ExistingKeys == {k \in Keys : existing_map[k] # None}
SlotCalls(j) == {i \in CallIdx : calls[i].slot = j}
\* Desired entries the upsert pass has dealt with.
Processed == 1..(idx - 1)

\* C1 (as claimed): a run that follows a completed run with the same desired
\* set, whose keys are distinct, and no external change issues no insert,
\* patch or delete call and reports every desired entry unchanged.
C1_SecondRunIsNoOp ==
    (run >= 2 /\ pc = "done" /\ NoRepeatedKey)
        => (calls = <<>> /\ unchanged = Len(desired) /\ inserted = 0 /\ patched = 0
            /\ deleted = 0)

\* C2 (as claimed): in one run every identity key gets at most one mutating
\* call, whatever the desired list and the answers of the service.
C2_AtMostOneCallPerKey == \A k \in Keys : NumCalls(k) <= 1

\* C2 (amended): in one run each occurrence of a key in the desired list
\* causes at most one mutating call, plus one fallback patch for an insert
\* answered 409; a key that the desired list does not hold gets at most one
\* call (its orphan delete).
C2_CallsPerOccurrence ==
    \A k \in Keys :
        /\ NumCalls(k) <= (IF Occurrences(k) = 0 THEN 1
                           ELSE Occurrences(k) + NumConflicts(k))
        /\ (Occurrences(k) <= 1 /\ NumConflicts(k) = 0) => NumCalls(k) <= 1

C2_Witness ==
    /\ pc = "done"
    /\ \E k \in Keys : Occurrences(k) = 1 /\ NumConflicts(k) = 1 /\ NumCalls(k) = 2
    /\ \E k \in Keys : Occurrences(k) = 0 /\ NumCalls(k) = 1

\* C3: with delete_orphans the keys a delete call is issued for are, when the
\* run returns, exactly the keys of the existing map that the desired list
\* does not hold, each deleted once; a desired key is never deleted; without
\* delete_orphans no delete call is issued.
C3_OrphanCleanup ==
    /\ \A k \in Keys :
          Cardinality({i \in CallIdx : calls[i].op = "delete" /\ calls[i].key = k}) <= 1
    /\ DeletedKeys \subseteq (ExistingKeys \ active_ids(desired))
    /\ ~delete_orphans => DeletedKeys = {}
    /\ (pc = "done" /\ delete_orphans) => DeletedKeys = ExistingKeys \ active_ids(desired)

C3_Witness ==
    /\ pc = "done"
    /\ delete_orphans
    /\ DeletedKeys # {}
    /\ ExistingKeys \cap active_ids(desired) # {}

\* C4: in one run no insert or patch call follows a delete call, and no key
\* is deleted and then inserted.
C4_DeletesAfterUpserts ==
    \A i \in CallIdx : \A j \in CallIdx :
        (i < j /\ calls[i].op = "delete") => calls[j].op = "delete"

C4_Witness ==
    /\ pc = "done"
    /\ \E i \in CallIdx : \E j \in CallIdx :
          /\ i < j
          /\ calls[i].op = "insert"
          /\ calls[j].op = "delete"
    /\ \E i \in CallIdx : calls[i].op = "patch"

\* C5: an insert is issued for a desired entry without a match in the
\* existing map, under the entry's key; an insert answered 409 is followed
\* by a patch of that key, the entry is reported patched and the loop goes
\* on; an insert answered with another error ends the run (raised).
C5_ConflictFallsBackToPatch ==
    \A i \in CallIdx :
        calls[i].op = "insert" =>
            /\ calls[i].key = desired[calls[i].slot].event_id
            /\ existing_map[calls[i].key] = None
            /\ calls[i].status = 409 =>
                  /\ i < Len(calls)
                  /\ calls[i + 1].op = "patch"
                  /\ calls[i + 1].key = calls[i].key
                  /\ calls[i + 1].slot = calls[i].slot
                  /\ calls[i + 1].status = 200 =>
                        /\ idx > calls[i].slot
                        /\ results[calls[i].slot] = Result(calls[i].key, "patched")
            /\ calls[i].status = 200 =>
                  /\ idx > calls[i].slot
                  /\ results[calls[i].slot] = Result(calls[i].key, "inserted")
            /\ calls[i].status \notin {200, 409} =>
                  /\ pc = "raised"
                  /\ i = Len(calls)
                  /\ idx = calls[i].slot

C5_Witness ==
    /\ pc = "done"
    /\ Len(desired) = 2
    /\ \E i \in CallIdx : calls[i].op = "insert" /\ calls[i].status = 409 /\ calls[i].slot = 1
    /\ Len(results) >= 2

\* The keys in which two views differ, and those among them whose desired
\* value is not None.
Differing(cur, des) == {k \in PatchKeys : ViewGet(cur, k) # ViewGet(des, k)}
NonNullDiffering(cur, des) == {k \in Differing(cur, des) : ViewGet(des, k) # None}
PatchCalls(j) == {i \in SlotCalls(j) : calls[i].op = "patch"}
DesiredView(j) == _norm_body_view(desired[j].body)
CurrentView(j) == existing_map[desired[j].event_id][1]
Matched(j) == existing_map[desired[j].event_id] # None

\* C6 (as claimed): for a desired entry with a match in the existing map, if
\* the two views differ in a managed field one patch call is issued and the
\* entry is reported patched; if they are identical no call is made and it
\* is reported unchanged.
C6_PatchIffViewsDiffer ==
    \A j \in Processed :
        Matched(j) =>
            IF Differing(CurrentView(j), DesiredView(j)) # {}
            THEN Cardinality(PatchCalls(j)) = 1 /\ results[j].status = "patched"
            ELSE SlotCalls(j) = {} /\ results[j].status = "unchanged"

\* C6 (amended): for a desired entry with a match in the existing map, if the
\* two views differ in a managed field whose desired value is not null, one
\* patch call is issued, naming exactly those fields, and the entry is
\* reported patched; otherwise (identical, or different only where the
\* desired value is null) no call is made and it is reported unchanged.
C6_PatchIffNonNullDiff ==
    \A j \in Processed :
        Matched(j) =>
            IF NonNullDiffering(CurrentView(j), DesiredView(j)) # {}
            THEN /\ Cardinality(PatchCalls(j)) = 1
                 /\ SlotCalls(j) = PatchCalls(j)
                 /\ \A i \in PatchCalls(j) :
                       calls[i].sent = NonNullDiffering(CurrentView(j), DesiredView(j))
                 /\ results[j].status = "patched"
            ELSE SlotCalls(j) = {} /\ results[j].status = "unchanged"

C6_Witness ==
    /\ pc = "done"
    /\ \E j \in Processed :
          /\ Matched(j)
          /\ NonNullDiffering(CurrentView(j), DesiredView(j)) # {}
          /\ results[j].status = "patched"
    /\ \E j \in Processed :
          /\ Matched(j)
          /\ Differing(CurrentView(j), DesiredView(j)) # {}
          /\ NonNullDiffering(CurrentView(j), DesiredView(j)) = {}
          /\ results[j].status = "unchanged"

(***************************************************************************)
(* _diff_for_patch on its own: a desired body and a current event that     *)
(* differs from it in at most MaxDiffFields fields are normalised, then    *)
(* diffed.                                                                 *)
(***************************************************************************)
MaxDiffFields == 2

BodyFields == {"summary", "description", "location", "colorId", "start", "end",
               "reminders", "priv", "attendees"}

\* Values of the fields of a desired body.
DesiredDom(f) ==
    CASE f = "summary" -> {None, Some(<<"a">>)}
      [] f = "description" -> {None, Some(<<"d">>)}
      [] f = "location" -> {None, Some(<<"x">>)}
      [] f = "colorId" -> {None, Some(<<"2">>)}
      [] f = "start" -> {[dateTime |-> Some(1), timeZone |-> Some("tz")],
                         [dateTime |-> Some(5), timeZone |-> Some("tz")]}
      [] f = "end" -> {[dateTime |-> Some(2), timeZone |-> Some("tz")],
                       [dateTime |-> Some(6), timeZone |-> Some("tz")]}
      [] f = "reminders" -> {None, Some({"popup"})}
      [] f = "priv" -> {None, Some({SourceMarker})}
      [] f = "attendees" -> {None, Some(<<Some(11)>>)}

\* Values of the fields of an event of the calendar: those, and values that
\* normalise to them (blanks, an empty string, letter case, an attendee
\* without e-mail) or differ from them.
EventDom(f) ==
    DesiredDom(f) \cup
    ( CASE f = "summary" -> {Some(<<" ", "a", " ">>), Some(<<"b">>)}
        [] f = "description" -> {Some(<<"d", " ">>)}
        [] f = "location" -> {Some(<<>>)}
        [] f = "priv" -> {Some({}), Some({SourceMarker, <<"booked", "1">>})}
        [] f = "attendees" -> {Some(<<Some(1), None>>), Some(<<Some(2), Some(1)>>)}
        [] OTHER -> {} )

Variants1(e) == {e} \cup UNION {{[e EXCEPT ![f] = v] : v \in EventDom(f)} : f \in BodyFields}

RECURSIVE Variants(_, _)
Variants(e, n) == IF n = 0 THEN {e}
                  ELSE UNION {Variants1(c) : c \in Variants(e, n - 1)}

InitDiff ==
    /\ d_stage = "raw"
    /\ d_des \in [summary : DesiredDom("summary"), description : DesiredDom("description"),
                  location : DesiredDom("location"), colorId : DesiredDom("colorId"),
                  start : DesiredDom("start"), end : DesiredDom("end"),
                  reminders : DesiredDom("reminders"), priv : DesiredDom("priv"),
                  attendees : DesiredDom("attendees")]
    /\ d_cur \in Variants(d_des, MaxDiffFields)
    /\ d_patch = <<>>
    /\ SyncIdle
    /\ AggIdle
    /\ OccIdle
    /\ ExtIdle

\* current_view = _norm_event_view(existing); desired_view = _norm_body_view(body)
NormaliseViews ==
    /\ d_stage = "raw"
    /\ d_cur' = _norm_event_view(d_cur)
    /\ d_des' = _norm_body_view(d_des)
    /\ d_stage' = "views"
    /\ UNCHANGED d_patch

\* patch = _diff_for_patch(current_view, desired_view)
ApplyDiff ==
    /\ d_stage = "views"
    /\ d_patch' = _diff_for_patch(d_cur, d_des)
    /\ d_stage' = "patched"
    /\ UNCHANGED <<d_cur, d_des>>

NextDiff ==
    \/ NormaliseViews /\ UNCHANGED <<syncvars, aggvars, occvars, extvars>>
    \/ ApplyDiff /\ UNCHANGED <<syncvars, aggvars, occvars, extvars>>

SpecDiff == InitDiff /\ [][NextDiff]_vars

\* C7 (as claimed): the patch is empty when all managed fields are equal, and
\* when exactly one managed field differs the patch holds exactly that field
\* with the desired value.
C7_PatchIsTheOneDifference ==
    d_stage = "patched" =>
        /\ Differing(d_cur, d_des) = {} => DOMAIN d_patch = {}
        /\ \A k \in PatchKeys :
              Differing(d_cur, d_des) = {k} =>
                  DOMAIN d_patch = {k} /\ d_patch[k] = ViewGet(d_des, k)

\* C7 (amended): the patch is empty when all managed fields are equal; when
\* exactly one managed field differs the patch holds exactly that field with
\* the desired value if that value is not null, and is empty if it is null.
C7_PatchIsTheNonNullDifference ==
    d_stage = "patched" =>
        /\ Differing(d_cur, d_des) = {} => DOMAIN d_patch = {}
        /\ \A k \in PatchKeys :
              Differing(d_cur, d_des) = {k} =>
                  IF ViewGet(d_des, k) # None
                  THEN DOMAIN d_patch = {k} /\ d_patch[k] = ViewGet(d_des, k)
                  ELSE DOMAIN d_patch = {}

C7_Witness ==
    /\ d_stage = "patched"
    /\ Differing(d_cur, d_des) = {"description"}
    /\ DOMAIN d_patch = {"description"}

(***************************************************************************)
(* sync_calendar on a calendar that another client edits meanwhile         *)
(***************************************************************************)
\* Another client of the calendar removes an entry while sync_calendar runs,
\* after the snapshot of existing entries was taken.
ExternalDelete ==
    /\ pc \in {"upsert", "delete"}
    /\ \E k \in Keys :
          /\ cal[k] # None
          /\ cal' = [cal EXCEPT ![k] = None]
    /\ UNCHANGED <<desired, delete_orphans, run, pc, syncrun>>

NextSyncEnv ==
    \/ Fetch /\ UNCHANGED <<diffvars, aggvars, occvars, extvars>>
    \/ UpsertInsert /\ UNCHANGED <<diffvars, aggvars, occvars, extvars>>
    \/ UpsertCompare /\ UNCHANGED <<diffvars, aggvars, occvars, extvars>>
    \/ EndUpsert /\ UNCHANGED <<diffvars, aggvars, occvars, extvars>>
    \/ DeleteStep /\ UNCHANGED <<diffvars, aggvars, occvars, extvars>>
    \/ EndDelete /\ UNCHANGED <<diffvars, aggvars, occvars, extvars>>
    \/ Rerun /\ UNCHANGED <<diffvars, aggvars, occvars, extvars>>
    \/ ExternalDelete /\ UNCHANGED <<diffvars, aggvars, occvars, extvars>>

SpecSyncEnv == InitSync /\ [][NextSyncEnv]_vars

\* C18: a delete call answered with not-found is treated as success: the
\* orphan-deletion pass goes on with the remaining entries and sync_calendar
\* does not raise to its caller.
C18_DeleteNotFoundIsSuccess ==
    ~ /\ pc = "raised"
      /\ calls # <<>>
      /\ calls[Len(calls)].op = "delete"
      /\ calls[Len(calls)].status = 404

(***************************************************************************)
(* The slot aggregator (src/src/cf_middle_layer.py).                       *)
(*                                                                         *)
(* Time.  A datetime is a number of ticks; a day has TicksPerDay ticks,    *)
(* tick 0 of a day is midnight and the last tick of a day is               *)
(* 23:59:59.009999.  Day 0 is Monday 2024-12-23, so day 9 is Wednesday     *)
(* 2025-01-01, day 14 is Monday 2025-01-06 and day 21 is Monday            *)
(* 2025-01-13.  A "YYYYMMDD" string is the optional number of its day; the *)
(* string "0" is Some(0), which is no date.                                *)
(***************************************************************************)
TicksPerDay == 4
MaxEvents == 2
MaxBookings == 2

\* timedelta(weeks=1), "% 7", "// 7": the days of a week
Week == 7

\* timedelta(days=n)
timedelta(n) == n * TicksPerDay
\* datetime.date()
Date(t) == t \div TicksPerDay
\* datetime.weekday(): Monday is 0
weekday(t) == Date(t) % Week
\* dt.replace(hour=23, minute=59, second=59, microsecond=9999)
EndOfDay(t) == Date(t) * TicksPerDay + (TicksPerDay - 1)
\* dt.replace(hour=h, minute=m, second=0, microsecond=0), h:m being tick tod
_apply_times(dt, tod) == Date(dt) * TicksPerDay + tod

\* datetime.strptime(v, "%Y%m%d") at midnight, None when it does not parse
_datetime_or_none(v) == IF v = None \/ v[1] = 0 THEN None ELSE Some(timedelta(v[1]))

\* start_date_str "2025-01-01", days = 14
WindowStartDay == 9
days == 14
window_start == timedelta(WindowStartDay)
window_end == window_start + timedelta(days)

_overlaps(a_start, a_end, b_start, b_end) == ~(a_end <= b_start \/ b_end <= a_start)

RFC5545_DAYS == <<"mon", "tue", "wed", "thu", "fri", "sat", "sun">>
\* RFC5545_DAYS.index(wd)
DayIndex(wd) == (CHOOSE i \in 1..Len(RFC5545_DAYS) : RFC5545_DAYS[i] = wd) - 1

\* while cur < window_end: out.append((cur, cur)); cur += timedelta(weeks=1)
RECURSIVE WeeklyFrom(_, _)
WeeklyFrom(cur, we) ==
    IF cur < we THEN <<<<cur, cur>>>> \o WeeklyFrom(cur + timedelta(Week), we) ELSE <<>>

\* A mutant of StepToWindow: the first occurrence is not moved into the window.
StepToWindowNever(first, ws) == first

\* while first < window_start: first += timedelta(weeks=1)
RECURSIVE StepToWindow(_, _)
StepToWindow(first, ws) ==
    IF first < ws THEN StepToWindow(first + timedelta(Week), ws) ELSE first

\* the first occurrence of weekday wd: lines 128-139
FirstOccurrence(s, wd, ws) ==
    LET target_idx == DayIndex(wd)
        first_day == s + timedelta((target_idx - weekday(s)) % Week)
    IN  IF first_day < ws
        THEN LET delta_days == (ws - first_day) \div TicksPerDay
                 jumps == (delta_days \div Week) * Week
             IN  StepToWindow(first_day + timedelta(jumps), ws)
        ELSE first_day

\* for wd in reps: ... (weekday names outside RFC5545_DAYS are passed over)
RECURSIVE ExpandWeekdays(_, _, _, _)
ExpandWeekdays(reps, s, ws, we) ==
    IF reps = <<>> THEN <<>>
    ELSE (IF \E i \in 1..Len(RFC5545_DAYS) : RFC5545_DAYS[i] = Head(reps)
          THEN WeeklyFrom(FirstOccurrence(s, Head(reps), ws), we)
          ELSE <<>>)
         \o ExpandWeekdays(Tail(reps), s, ws, we)

\* out.sort(key=lambda se: se[0]): a stable sort by start
RECURSIVE InsertByStart(_, _)
InsertByStart(sorted, occ) ==
    IF sorted = <<>> THEN <<occ>>
    ELSE IF occ[1] < Head(sorted)[1] THEN <<occ>> \o sorted
    ELSE <<Head(sorted)>> \o InsertByStart(Tail(sorted), occ)

RECURSIVE SortByStart(_)
SortByStart(out) ==
    IF out = <<>> THEN <<>>
    ELSE InsertByStart(SortByStart(SubSeq(out, 1, Len(out) - 1)), out[Len(out)])

\* An item event is a record with the fields start_date, end_date (optional
\* date strings), repeat (a list of weekday names, empty when absent), ...
_item_occurrences(item, ws, we) ==
    LET s == IF item.start_date = None THEN ws
             ELSE _datetime_or_none(item.start_date)[1]
        itemend == _datetime_or_none(item.end_date)
    IN  IF item.repeat = <<>>
        THEN <<<<s, itemend[1]>>>>
        ELSE SortByStart(ExpandWeekdays(item.repeat, s, ws, we))

RECURSIVE _item_daily_occurrences(_, _)
_item_daily_occurrences(ws, we) ==
    IF ws < we THEN <<<<ws, ws>>>> \o _item_daily_occurrences(ws + timedelta(1), we)
    ELSE <<>>

\* _event_applies_to_ids / _event_applies_to_categories: the ids as a set
_event_applies_to_ids(ev) == ev.item_id
_event_applies_to_categories(ev) == ev.category_id

(***************************************************************************)
(* The booking source: the item catalog, the item events, the booking      *)
(* lines and the time-of-day rules of config.json.                         *)
(***************************************************************************)
ItemIds == {1, 2}
ArchivedItemId == 3
CategoryIds == {1, 2}
Sku(i) == 10 + i
UnknownSku == Sku(ArchivedItemId)

CatalogItem(i, stock, status, unl, visibility) ==
    [item_id |-> i, sku |-> Sku(i), category |-> i, stock |-> stock,
     status |-> status, unlimited |-> unl, visibility |-> visibility]

\* cf.list_items(), by item id: item 1 of category 1, item 2 of category 2
Catalogs ==
    {[i \in ItemIds |-> IF i = 1 THEN a ELSE b] :
        a \in {CatalogItem(1, Some(5), "A", 0, "*"), CatalogItem(1, Some(5), "A", 1, "*")},
        b \in {CatalogItem(2, Some(3), "A", 0, "*"), CatalogItem(2, None, "U", 0, "*")}}

\* items_by_sku
items_by_sku == [s \in {items[i].sku : i \in DOMAIN items} |->
                    items[CHOOSE i \in DOMAIN items : items[i].sku = s]]

ItemEvent(enabled, status, start_date, end_date, repeat, unl, item_id, category_id) ==
    [enabled |-> enabled, status |-> status, start_date |-> start_date,
     end_date |-> end_date, repeat |-> repeat, unlimited |-> unl,
     item_id |-> item_id, category_id |-> category_id]

\* cf.list_item_events() draws from these descriptors.  Every descriptor
\* without a weekday list carries an end date that parses.
ItemEvents ==
    { \* weekly on Monday since 2024-12-30, open-ended, item 1
      ItemEvent(TRUE, "A", Some(7), Some(0), <<"mon">>, 0, {1}, {}),
      \* one span 2024-12-30..2025-01-04, item 1
      ItemEvent(TRUE, "A", Some(7), Some(12), <<>>, 0, {1}, {}),
      \* one span 2025-01-03..2025-01-04, item 2
      ItemEvent(TRUE, "A", Some(11), Some(12), <<>>, 1, {2}, {}),
      \* start date "0"
      ItemEvent(TRUE, "A", Some(0), Some(0), <<"mon">>, 0, {1}, {}),
      \* ended before the window
      ItemEvent(TRUE, "A", Some(1), Some(2), <<>>, 0, {1}, {}),
      \* weekly on Thursday, no start date, an unknown weekday name, an archived item
      ItemEvent(TRUE, "A", None, Some(0), <<"thu", "xyz">>, 1, {1, 2, ArchivedItemId}, {}),
      \* applies to no item
      ItemEvent(TRUE, "A", None, Some(0), <<"mon">>, 0, {}, {}),
      \* disabled
      ItemEvent(FALSE, "A", Some(7), Some(0), <<"mon">>, 0, {1}, {}),
      \* unavailable 2025-01-06..2025-01-06, item 1
      ItemEvent(TRUE, "U", Some(14), Some(14), <<>>, 0, {1}, {}),
      \* unavailable 2025-01-07..2025-01-09, category 2
      ItemEvent(TRUE, "U", Some(15), Some(17), <<>>, 0, {}, {2}),
      \* unavailable from 2025-01-10, end date "0", item 2
      ItemEvent(TRUE, "U", Some(18), Some(0), <<>>, 0, {2}, {}) }

BookingItem(sku, qty, status_id, start_date, end_date) ==
    [booking_id |-> 0, sku |-> sku, qty |-> qty, status_id |-> status_id,
     start_date |-> start_date, end_date |-> end_date]

\* the line items of the bookings of cf.list_bookings_index() / cf.get_booking()
BookingItems ==
    { \* 2 places of sku 11 on 2025-01-13
      BookingItem(Sku(1), 2, "PAID", Some(timedelta(21) + 1), Some(timedelta(21) + 2)),
      \* 1 place of sku 11 from 2024-12-31 to 2025-01-02
      BookingItem(Sku(1), 1, "PAID", Some(timedelta(8) + 1), Some(timedelta(10) + 1)),
      \* 4 places of sku 12 on 2025-01-08 and 2025-01-09
      BookingItem(Sku(2), 4, "PAID", Some(timedelta(16) + 1), Some(timedelta(17) + 2)),
      \* voided
      BookingItem(Sku(1), 2, "VOID", Some(timedelta(21) + 1), Some(timedelta(21) + 2)),
      \* no end
      BookingItem(Sku(1), 0, "PAID", Some(timedelta(21) + 1), None),
      \* an sku that is not in the catalog
      BookingItem(UnknownSku, 1, "PAID", Some(timedelta(12) + 1), Some(timedelta(12) + 2)),
      \* 1 place of sku 12 on 2025-01-04, start and end at the same instant
      BookingItem(Sku(2), 1, "PAID", Some(timedelta(12) + 1), Some(timedelta(12) + 1)) }

\* booking ids number the bookings in the order of the index
Numbered(lines) == [j \in 1..Len(lines) |-> [lines[j] EXCEPT !.booking_id = j]]

TimeRule(start_tod, end_tod, overnight) ==
    [start |-> start_tod, end |-> end_tod, overnight |-> overnight]

\* CONFIG["time_rules"]
TimeRules ==
    { [sku_overrides |-> <<>>, default_by_category |-> <<>>],
      [sku_overrides |-> <<>>, default_by_category |-> (1 :> TimeRule(1, 2, FALSE))],
      [sku_overrides |-> (Sku(1) :> TimeRule(2, 1, TRUE)), default_by_category |-> <<>>] }

(***************************************************************************)
(* build_buckets                                                           *)
(***************************************************************************)
available_events == SelectSeq(events, LAMBDA e : e.enabled /\ e.status # "U")
unavailable_events == SelectSeq(events, LAMBDA e : e.enabled /\ e.status = "U")

Range(seq) == {seq[i] : i \in 1..Len(seq)}

\* the window (u_start_s, u_end_s) of an unavailable event: lines 186-197
UnavailableWindow(u) ==
    <<_datetime_or_none(u.start_date)[1], EndOfDay(_datetime_or_none(u.end_date)[1])>>

\* u_end_s.replace(...) of a missing or unparseable end date raises
IndexRaises == \E u \in Range(unavailable_events) : _datetime_or_none(u.end_date) = None

Indexed == {u \in Range(unavailable_events) : _datetime_or_none(u.start_date) # None}

\* extract_checkfront_data lines 328-329 (cf.list_items() for items_by_id and
\* again for items_by_sku), then build_buckets lines 177-214: one
\* cf.list_item_events() and the lists of unavailable windows by item id and
\* by category id
BuildIndex ==
    /\ a_stage = "index"
    /\ reads' = [reads EXCEPT !.items = @ + 2, !.events = @ + 1]
    /\ IF IndexRaises
       THEN /\ a_stage' = "raised"
            /\ UNCHANGED <<unavail_by_item, unavail_by_category>>
       ELSE /\ a_stage' = "events"
            /\ unavail_by_item' =
                 [i \in ItemIds \cup {ArchivedItemId} |->
                    {UnavailableWindow(u) : u \in {x \in Indexed : i \in _event_applies_to_ids(x)}}]
            /\ unavail_by_category' =
                 [c \in CategoryIds |->
                    {UnavailableWindow(u) : u \in {x \in Indexed : c \in _event_applies_to_categories(x)}}]
    /\ UNCHANGED <<items, events, bookings, time_rules, buckets, ev_idx, bk_idx,
                   itemcategory, unlimited, occ_log, flat>>

\* SlotAggregate(sku=..., start_date=s.date(), start=s, end=e, ...)
SlotAggregate(sku, s, e, total_places, unl, item) ==
    [sku |-> sku, start_date |-> Date(s), start |-> s, end |-> e,
     total_places |-> total_places, unlimited |-> unl, item |-> item,
     booking_items |-> <<>>]

\* any(_overlaps(s, e, ub_s, ub_e) for (ub_s, ub_e) in windows)
AnyOverlap(s, e, windows) == \E w \in windows : _overlaps(s, e, w[1], w[2])

\* one candidate occurrence of one item, checked against the windows of the
\* item id and of the category id cat
Candidate(src, i, occ, cat) ==
    [src |-> src, item |-> i, sku |-> items[i].sku, s |-> occ[1], e |-> occ[2],
     excluded |-> \/ AnyOverlap(occ[1], occ[2], unavail_by_item[i])
                  \/ AnyOverlap(occ[1], occ[2], unavail_by_category[cat])]

\* A mutant of Key: the aggregate is filed under the date of its end.
KeyByEnd(c) == <<c.sku, Date(c.e)>>

\* key = (sku, s.date())
Key(c) == <<c.sku, Date(c.s)>>

\* if key not in buckets: buckets[key] = SlotAggregate(...), for every
\* candidate that is not excluded
AddAll(b, cands, unl) ==
    LET admitted == {c \in cands : ~c.excluded}
        new == {Key(c) : c \in admitted} \ DOMAIN b
    IN  [k \in DOMAIN b \cup new |->
            IF k \in DOMAIN b THEN b[k]
            ELSE LET c == CHOOSE x \in admitted : Key(x) = k
                 IN  SlotAggregate(c.sku, c.s, c.e, items[c.item].stock, unl, c.item)]

\* the occurrences generated, with whether an aggregate was created from them
Logged(b, cands) ==
    {[src |-> c.src, item |-> c.item, sku |-> c.sku, s |-> c.s, e |-> c.e, excluded |-> c.excluded,
      created |-> ~c.excluded /\ Key(c) \notin DOMAIN b] : c \in cands}

Max(S) == CHOOSE x \in S : \A y \in S : y <= x

\* lines 267-269
available_items_by_id ==
    {i \in DOMAIN items : /\ items[i].status # "U"
                          /\ items[i].unlimited = 0
                          /\ items[i].visibility = "*"}

\* one iteration of "for available_event in available_events": lines 216-301
AvailableEvent ==
    /\ a_stage = "events"
    /\ ev_idx <= Len(available_events)
    /\ LET available_event == available_events[ev_idx]
           u_end_s == _datetime_or_none(available_event.end_date)
           skipped == \/ available_event.start_date = Some(0)
                      \/ /\ available_event.end_date # Some(0)
                         /\ u_end_s # None
                         /\ u_end_s[1] < window_start
           \* u_end_s < window_start with u_end_s None raises
           end_raises == /\ available_event.start_date # Some(0)
                         /\ available_event.end_date # Some(0)
                         /\ u_end_s = None
           unl == available_event.unlimited = 1
           occs == _item_occurrences(available_event, window_start, window_end)
           applies_to_item_ids == _event_applies_to_ids(available_event) \cap DOMAIN items
           category == IF applies_to_item_ids = {} THEN itemcategory
                       ELSE Some(items[Max(applies_to_item_ids)].category)
           src == IF available_event.repeat = <<>> THEN "span" ELSE "weekly"
           from_event == {Candidate(src, i, occ, items[i].category) :
                             i \in applies_to_item_ids, occ \in Range(occs)}
           b1 == AddAll(buckets, from_event, unl)
           \* line 281 reads itemcategory, the local last assigned at line 242;
           \* reading it before any assignment raises
           unbound == available_items_by_id # {} /\ category = None
           from_daily == {Candidate("daily", i, occ, category[1]) :
                             i \in available_items_by_id,
                             occ \in Range(_item_daily_occurrences(window_start, window_end))}
           b2 == AddAll(b1, from_daily, unl)
       IN  IF skipped
           THEN /\ ev_idx' = ev_idx + 1
                /\ UNCHANGED <<a_stage, buckets, itemcategory, unlimited, occ_log>>
           ELSE IF end_raises \/ unbound
           THEN /\ a_stage' = "raised"
                /\ UNCHANGED <<buckets, ev_idx, itemcategory, unlimited, occ_log>>
           ELSE /\ ev_idx' = ev_idx + 1
                /\ unlimited' = Some(unl)
                /\ itemcategory' = category
                /\ buckets' = b2
                /\ occ_log' = occ_log \cup Logged(buckets, from_event) \cup Logged(b1, from_daily)
                /\ UNCHANGED a_stage
    /\ UNCHANGED <<items, events, bookings, time_rules, unavail_by_item,
                   unavail_by_category, bk_idx, flat>>

\* return buckets: the availability pass is over, the booking pass starts
EndEvents ==
    /\ a_stage = "events"
    /\ ev_idx > Len(available_events)
    /\ a_stage' = "bookings"
    /\ reads' = [reads EXCEPT !.bookings = @ + 1]
    /\ UNCHANGED <<items, events, bookings, time_rules, unavail_by_item,
                   unavail_by_category, buckets, ev_idx, bk_idx, itemcategory,
                   unlimited, occ_log, flat>>

(***************************************************************************)
(* extract_checkfront_data: the booking pass and the projection            *)
(***************************************************************************)
\* A mutant of KeyInBuckets: the booking pass takes every key for a new one.
KeyInBucketsNever(key, b) == FALSE

\* key in buckets
KeyInBuckets(key, b) == key \in DOMAIN b

\* one iteration of "for bookinglineid, booking_item in booking_items.items()":
\* lines 352-413
BookingLine ==
    /\ a_stage = "bookings"
    /\ bk_idx <= Len(bookings)
    /\ LET booking_item == bookings[bk_idx]
           sku == booking_item.sku
           qty == booking_item.qty
           booking_start_iso == booking_item.start_date[1]
           booking_end_iso == booking_item.end_date[1]
           left_out == \/ booking_item.status_id = "VOID"
                       \/ qty <= 0
                       \/ booking_item.start_date = None
                       \/ booking_item.end_date = None
                       \/ booking_end_iso <= window_start
                       \/ booking_start_iso >= window_end
           occs == Range(_item_daily_occurrences(booking_start_iso, booking_end_iso))
           keys == {<<sku, Date(occ[1])>> : occ \in occs}
           \* items_by_sku[sku] of an sku that is not in the catalog raises
           raises == keys \ DOMAIN buckets # {} /\ sku \notin DOMAIN items_by_sku
           occ_of(k) == CHOOSE occ \in occs : Date(occ[1]) = k[2]
           flat_booking(occ) == [booking_id |-> booking_item.booking_id, sku |-> sku,
                                 qty |-> qty, start |-> occ[1], end |-> occ[2]]
           slot(k) == IF KeyInBuckets(k, buckets) THEN buckets[k]
                      ELSE SlotAggregate(sku, occ_of(k)[1], occ_of(k)[2], None, FALSE,
                                         items_by_sku[sku].item_id)
       IN  IF left_out
           THEN /\ bk_idx' = bk_idx + 1
                /\ UNCHANGED <<a_stage, buckets, occ_log>>
           ELSE IF raises
           THEN /\ a_stage' = "raised"
                /\ UNCHANGED <<bk_idx, buckets, occ_log>>
           ELSE /\ bk_idx' = bk_idx + 1
                /\ buckets' =
                     [k \in DOMAIN buckets \cup keys |->
                        IF k \in keys
                        THEN [slot(k) EXCEPT !.booking_items =
                                                Append(@, flat_booking(occ_of(k)))]
                        ELSE buckets[k]]
                /\ occ_log' = occ_log \cup
                     {[src |-> "booking", item |-> 0, sku |-> sku, s |-> occ[1],
                       e |-> occ[2], excluded |-> FALSE,
                       created |-> <<sku, Date(occ[1])>> \notin DOMAIN buckets] : occ \in occs}
                /\ UNCHANGED a_stage
    /\ UNCHANGED <<items, events, bookings, time_rules, unavail_by_item,
                   unavail_by_category, ev_idx, itemcategory, unlimited, flat>>

\* _get_rule_for(slot): the sku override, else the rule of the category
_get_rule_for(slot) ==
    LET item == items[slot.item]
    IN  IF item.sku \in DOMAIN time_rules.sku_overrides
        THEN Some(time_rules.sku_overrides[item.sku])
        ELSE IF item.category \in DOMAIN time_rules.default_by_category
        THEN Some(time_rules.default_by_category[item.category])
        ELSE None

\* A mutant of apply_time_rule: the rule is looked up and not applied.
apply_time_rule_skipped(slot) == slot

apply_time_rule(slot) ==
    LET rule == _get_rule_for(slot)
    IN  IF rule = None THEN slot
        ELSE LET start == _apply_times(slot.start, rule[1].start)
                 end == _apply_times(slot.end, rule[1].end)
             IN  [slot EXCEPT !.start = start,
                              !.end = IF end <= start THEN end + timedelta(1) ELSE end]

\* A mutant of SumQty: the lines are counted, whatever their qty.
LineCount(booking_items) == Len(booking_items)

\* total_booked += int(bi.get("qty") or 0), over slot.booking_items
RECURSIVE SumQty(_)
SumQty(booking_items) ==
    IF booking_items = <<>> THEN 0
    ELSE Head(booking_items).qty + SumQty(Tail(booking_items))

\* A mutant of AvailablePlaces: an overbooked slot shows no places left.
AvailablePlacesClamped(unl, total_places, total_booked) ==
    IF unl THEN None
    ELSE LET left == (IF total_places = None THEN 0 ELSE total_places[1]) - total_booked
         IN  Some(IF left < 0 THEN 0 ELSE left)

\* None if unlimited else (int(total_places or 0) - int(total_booked or 0))
AvailablePlaces(unl, total_places, total_booked) ==
    IF unl THEN None
    ELSE Some((IF total_places = None THEN 0 ELSE total_places[1]) - total_booked)

\* the record slots_to_json_ready builds of one aggregate: lines 427-503
slot_dict(k, slot) ==
    LET item == items[slot.item]
        unl == item.unlimited = 1
        total_booked == SumQty(slot.booking_items)
        timed == apply_time_rule(slot)
    IN  [sku |-> k[1], date |-> k[2], start |-> timed.start, end |-> timed.end,
         unlimited |-> unl, total_places |-> item.stock, total_booked |-> total_booked,
         available_places |-> AvailablePlaces(unl, item.stock, total_booked)]

\* return slots_to_json_ready(buckets): line 415
Project ==
    /\ a_stage = "bookings"
    /\ bk_idx > Len(bookings)
    /\ a_stage' = "done"
    /\ flat' = [k \in DOMAIN buckets |-> slot_dict(k, buckets[k])]
    /\ buckets' = [k \in DOMAIN buckets |-> apply_time_rule(buckets[k])]
    /\ UNCHANGED <<items, events, bookings, time_rules, unavail_by_item,
                   unavail_by_category, ev_idx, bk_idx, itemcategory, unlimited,
                   occ_log>>

InitAgg ==
    /\ a_stage = "index"
    /\ items \in Catalogs
    /\ events \in SeqsUpTo(ItemEvents, MaxEvents)
    /\ bookings \in {Numbered(lines) : lines \in SeqsUpTo(BookingItems, MaxBookings)}
    /\ time_rules \in TimeRules
    /\ unavail_by_item = <<>>
    /\ unavail_by_category = <<>>
    /\ buckets = <<>>
    /\ ev_idx = 1
    /\ bk_idx = 1
    /\ itemcategory = None
    /\ unlimited = None
    /\ occ_log = {}
    /\ flat = <<>>
    /\ reads = NoReads
    /\ SyncIdle
    /\ DiffIdle
    /\ OccIdle
    /\ ExtIdle

NextAgg ==
    \/ BuildIndex /\ UNCHANGED <<syncvars, diffvars, occvars, extvars>>
    \/ AvailableEvent /\ UNCHANGED <<syncvars, diffvars, occvars, extvars, reads>>
    \/ EndEvents /\ UNCHANGED <<syncvars, diffvars, occvars, extvars>>
    \/ BookingLine /\ UNCHANGED <<syncvars, diffvars, occvars, extvars, reads>>
    \/ Project /\ UNCHANGED <<syncvars, diffvars, occvars, extvars, reads>>

SpecAgg == InitAgg /\ [][NextAgg]_vars

(***************************************************************************)
(* Claims about the aggregator                                             *)
(***************************************************************************)
InWindowStart(t) == window_start <= t /\ t < window_end

\* C8: every occurrence generated during a run - by _item_occurrences with or
\* without a weekday list, by the daily fallback, by the day expansion of a
\* booking line - and every projected record has window_start <= start <
\* window_end.
C8_WindowCorrectness ==
    /\ \A o \in occ_log : InWindowStart(o.s)
    /\ a_stage = "done" => \A k \in DOMAIN flat : InWindowStart(flat[k].start)

OwnCategory(o) == items[o.item].category

\* C9: no aggregate is created from an occurrence of an available event or of
\* the daily fallback that overlaps an unavailability window registered for
\* the item's id or for the item's own category id.
C9_OverlapExclusion ==
    \A o \in occ_log :
        (o.src \in {"weekly", "span", "daily"} /\ o.created) =>
            /\ ~AnyOverlap(o.s, o.e, unavail_by_item[o.item])
            /\ ~AnyOverlap(o.s, o.e, unavail_by_category[OwnCategory(o)])

\* the enabled unavailability events of item i whose dates D1..D2 hold date d
Covering(i, d) ==
    {u \in Range(unavailable_events) :
        /\ i \in _event_applies_to_ids(u)
        /\ u.start_date # None /\ u.end_date # None
        /\ u.start_date[1] <= d /\ d <= u.end_date[1]}

CoveringCategory(c, d) ==
    {u \in Range(unavailable_events) :
        /\ c \in _event_applies_to_categories(u)
        /\ u.start_date # None /\ u.end_date # None
        /\ u.start_date[1] <= d /\ d <= u.end_date[1]}

\* C10: for an item expanded weekly, an enabled unavailability event of that
\* item covering the dates D1..D2 inclusive removes every occurrence whose
\* date lies in D1..D2 (D1 itself included), and an occurrence on a date that
\* no unavailability event covers stays in place.
C10_DateLevelUnavailability ==
    \A o \in occ_log :
        o.src = "weekly" =>
            /\ Covering(o.item, Date(o.s)) # {} => o.excluded
            /\ (/\ Covering(o.item, Date(o.s)) = {}
                /\ CoveringCategory(OwnCategory(o), Date(o.s)) = {}) => ~o.excluded

\* the calendar days of the query window
WindowDays == {Date(occ[1]) : occ \in Range(_item_daily_occurrences(window_start, window_end))}

\* the unavailability windows of item i: those of its id and of its own category
OwnWindows(i) == unavail_by_item[i] \cup unavail_by_category[items[i].category]

\* window w holds some instant of day d
Touches(w, d) == w[1] <= EndOfDay(timedelta(d)) /\ timedelta(d) <= w[2]

\* C12: after build_buckets every eligible item (not unavailable, not
\* unlimited, publicly visible) has an aggregate at (sku, day) for every day of
\* the window that none of its unavailability windows overlaps, also when
\* there is no available event.
C12_DailyFallbackGuarantee ==
    a_stage \in {"bookings", "done"} =>
        \A i \in available_items_by_id : \A d \in WindowDays :
            (\A w \in OwnWindows(i) : ~Touches(w, d)) =>
                <<items[i].sku, d>> \in DOMAIN buckets

\* the occurrences from which the aggregate at key k was created
CreatedAt(k) == {o \in occ_log : o.created /\ <<o.sku, Date(o.s)>> = k}

\* C13: the aggregate map holds one aggregate per (sku, date), created once,
\* and the aggregate stored under (sku, d) has sku field sku and start_date d,
\* the date of its start.
C13_KeyConsistency ==
    \A k \in DOMAIN buckets :
        /\ buckets[k].sku = k[1]
        /\ buckets[k].start_date = k[2]
        /\ Date(buckets[k].start) = k[2]
        /\ Cardinality(CreatedAt(k)) = 1

\* an aggregate of the availability pass that the booking pass added a line to
C13_Witness ==
    /\ a_stage = "done"
    /\ \E k \in DOMAIN buckets :
          /\ buckets[k].booking_items # <<>>
          /\ \E o \in CreatedAt(k) : o.src = "weekly"

\* the booking lines that no skip rule of the booking pass leaves out
Counted(j) ==
    /\ bookings[j].status_id # "VOID"
    /\ bookings[j].qty > 0
    /\ bookings[j].start_date # None
    /\ bookings[j].end_date # None
    /\ bookings[j].end_date[1] > window_start
    /\ bookings[j].start_date[1] < window_end

\* the dates of the days of line j: its start, and every whole day after it
\* that begins before its end
LineDays(j) ==
    LET s == bookings[j].start_date[1]
        e == bookings[j].end_date[1]
    IN  {Date(s + timedelta(n)) : n \in {m \in 0..((e - s) \div TicksPerDay) : s + timedelta(m) < e}}

\* line j belongs to the aggregate at key k
BelongsTo(j, k) == Counted(j) /\ bookings[j].sku = k[1] /\ k[2] \in LineDays(j)

\* the qty of the first n booking lines that belong to the aggregate at key k
RECURSIVE QtyBooked(_, _)
QtyBooked(n, k) ==
    IF n = 0 THEN 0
    ELSE QtyBooked(n - 1, k) + (IF BelongsTo(n, k) THEN bookings[n].qty ELSE 0)

\* C14: in every projected record total_booked is the sum of qty over the
\* booking lines attached to that (sku, date) aggregate, and every attached
\* line carries the sku of the aggregate.
C14_BookingSum ==
    a_stage = "done" =>
        \A k \in DOMAIN flat :
            /\ flat[k].total_booked = QtyBooked(Len(bookings), k)
            /\ \A n \in 1..Len(buckets[k].booking_items) :
                  buckets[k].booking_items[n].sku = k[1]

\* two lines of qty 2 on one aggregate
C14_Witness ==
    /\ a_stage = "done"
    /\ \E k \in DOMAIN flat :
          /\ Len(buckets[k].booking_items) = 2
          /\ flat[k].total_booked = 4

\* the number of times line j is attached to the aggregate at key k
Attached(j, k) ==
    Cardinality({n \in 1..Len(buckets[k].booking_items) :
                    buckets[k].booking_items[n].booking_id = j})

\* line j is not voided, has a positive qty, a start and an end, and starts
\* in the query window
Valid(j) ==
    /\ bookings[j].status_id # "VOID"
    /\ bookings[j].qty > 0
    /\ bookings[j].start_date # None
    /\ bookings[j].end_date # None
    /\ InWindowStart(bookings[j].start_date[1])

CatalogItemOf(sku) == items[CHOOSE i \in DOMAIN items : items[i].sku = sku]
Capacity(sku) == IF CatalogItemOf(sku).stock = None THEN 0 ELSE CatalogItemOf(sku).stock[1]

\* C16: in every projected record available_places is null when the item is
\* unlimited, and otherwise capacity - total_booked, which is negative for an
\* overbooked slot.
C16_AvailablePlaces ==
    a_stage = "done" =>
        \A k \in DOMAIN flat :
            IF CatalogItemOf(k[1]).unlimited = 1
            THEN flat[k].available_places = None
            ELSE flat[k].available_places =
                     Some(Capacity(k[1]) - QtyBooked(Len(bookings), k))

\* 4 places booked of the 3 of sku 12: one place short
C16_Witness ==
    /\ a_stage = "done"
    /\ \E k \in DOMAIN flat :
          /\ flat[k].total_booked > Capacity(k[1])
          /\ flat[k].available_places = Some(0 - 1)

\* C17: every projected record has its end strictly after its start, whether
\* its aggregate came from a weekly occurrence, from the daily fallback or
\* from a day of a booking line, and whether or not a time-of-day rule applied.
C17_EndAfterStart ==
    a_stage = "done" => \A k \in DOMAIN flat : flat[k].end > flat[k].start

\* the run raised while the booking pass was at line bk_idx
RaisedInBookingPass ==
    /\ a_stage = "raised"
    /\ ~IndexRaises
    /\ ev_idx > Len(available_events)
    /\ bk_idx <= Len(bookings)

\* C19: a valid booking line whose sku is not in the item catalog and whose
\* (sku, day) has no aggregate from the availability pass is aggregated all
\* the same, and the run completes without error.
C19_MissingItemAggregated ==
    ~ /\ RaisedInBookingPass
      /\ bookings[bk_idx].sku \notin DOMAIN items_by_sku

\* C20: one malformed record does not abort the run: an unavailability event
\* whose start or end date is missing or does not parse is skipped, the other
\* records are processed and the run returns a projection.
C20_MalformedRecordSkipped ==
    ~ /\ a_stage = "raised"
      /\ IndexRaises

\* the enabled unavailability events with a start date and no end date
\* (missing, or the string "0")
OpenEnded ==
    {u \in Range(unavailable_events) :
        /\ _datetime_or_none(u.start_date) # None
        /\ u.end_date \in {None, Some(0)}}

\* C31 (as claimed): with an open-ended unavailability event among the item
\* events the index is built all the same, and it holds for every item the
\* event applies to a window from the event's start to window_end or later.
C31_OpenEndedUnavailability ==
    (a_stage # "index" /\ OpenEnded # {}) =>
        /\ unavail_by_item # <<>>
        /\ \A u \in OpenEnded : \A i \in _event_applies_to_ids(u) :
              \E w \in unavail_by_item[i] :
                  /\ w[1] = _datetime_or_none(u.start_date)[1]
                  /\ w[2] >= window_end

\* the occurrences from which the aggregate of key k was created
Creators(k) == {o \in occ_log : o.created /\ Key(o) = k}

\* start and end of an aggregate created from occurrence o, after one
\* application of rule
RuledOnce(o, rule) ==
    LET start == _apply_times(o.s, rule.start)
        end == _apply_times(o.e, rule.end)
    IN  <<start, IF end <= start THEN end + timedelta(1) ELSE end>>

\* C32: while the run expands and aggregates, start and end of every
\* aggregate are those of the occurrence that created it; the projected
\* record carries them with the time-of-day rule of the item applied once
\* (unchanged when no rule matches).
C32_TimeRuleOnlyAtProjection ==
    /\ a_stage \in {"events", "bookings", "raised"} =>
          \A k \in DOMAIN buckets :
              \E o \in Creators(k) :
                  buckets[k].start = o.s /\ buckets[k].end = o.e
    /\ a_stage = "done" =>
          \A k \in DOMAIN flat :
              \E o \in Creators(k) :
                  LET rule == _get_rule_for(buckets[k])
                  IN  <<flat[k].start, flat[k].end>> =
                          IF rule = None THEN <<o.s, o.e>> ELSE RuledOnce(o, rule[1])

\* a projected record whose start and end the rule of its item has moved,
\* the end to the next day
C32_Witness ==
    /\ a_stage = "done"
    /\ \E k \in DOMAIN flat :
          /\ _get_rule_for(buckets[k]) # None
          /\ \E o \in Creators(k) :
                /\ flat[k].start # o.s
                /\ Date(flat[k].end) = Date(o.e) + 1

\* C28 (as claimed): in a run that reaches the projection the item catalog,
\* the item-event list and the booking index were each requested from the
\* booking source exactly once.
C28_EachSourceReadOnce ==
    a_stage = "done" =>
        /\ reads.items = 1
        /\ reads.events = 1
        /\ reads.bookings = 1

\* C29 (as claimed): at every moment of the aggregation each aggregate
\* carries the capacity (stock) and the unlimited flag of its catalog item,
\* whichever pass created it.
C29_CapacityFromItem ==
    a_stage \in {"events", "bookings"} =>
        \A k \in DOMAIN buckets :
            /\ buckets[k].total_places = items[buckets[k].item].stock
            /\ buckets[k].unlimited = (items[buckets[k].item].unlimited = 1)

\* xs is an initial part of ys
IsPrefix(xs, ys) == Len(xs) <= Len(ys) /\ SubSeq(ys, 1, Len(xs)) = xs

\* C30: in every step of the aggregation (the projection excluded) each
\* aggregate of the map stays in the map, its start does not move later, its
\* end does not move earlier, and its line-item list is extended at the end
\* or left as it is.
C30_AggregatesOnlyGrow ==
    [][ a_stage' # "done" =>
          \A k \in DOMAIN buckets :
              /\ k \in DOMAIN buckets'
              /\ buckets'[k].start <= buckets[k].start
              /\ buckets'[k].end >= buckets[k].end
              /\ IsPrefix(buckets[k].booking_items, buckets'[k].booking_items) ]_vars

\* an aggregate made by the availability pass has received two booking
\* lines, one of them of a booking that starts on another day
C30_Witness ==
    /\ a_stage = "bookings"
    /\ \E k \in DOMAIN buckets :
          /\ Len(buckets[k].booking_items) = 2
          /\ \E o \in occ_log : o.src # "booking" /\ o.created /\ Key(o) = k
          /\ \E i \in 1..2 :
                bookings[buckets[k].booking_items[i].booking_id].start_date[1]
                    < buckets[k].start

(***************************************************************************)
(* _item_occurrences applied to one descriptor with a weekday list         *)
(***************************************************************************)
MaxWeekdays == 2

WeekdayNames == Range(RFC5545_DAYS) \cup {"xyz"}

\* the weekday lists of at most MaxWeekdays names, no name twice
WeekdayLists ==
    {reps \in SeqsUpTo(WeekdayNames, MaxWeekdays) :
        /\ reps # <<>>
        /\ \A i, j \in 1..Len(reps) : reps[i] = reps[j] => i = j}

\* anchors from a week before the window to the day after its start, or none
AnchorDates == {None} \cup {Some(d) : d \in (WindowStartDay - Week)..(WindowStartDay + 1)}

InitOcc ==
    /\ o_stage = "descriptor"
    /\ o_item \in {ItemEvent(TRUE, "A", sd, Some(0), reps, 0, {1}, {}) :
                      sd \in AnchorDates, reps \in WeekdayLists}
    /\ o_ws \in {window_start, window_start + 1}
    /\ o_out = <<>>
    /\ SyncIdle
    /\ DiffIdle
    /\ AggIdle
    /\ ExtIdle

\* occs = _item_occurrences(available_event, tz, window_start, window_end)
Expand ==
    /\ o_stage = "descriptor"
    /\ o_out' = _item_occurrences(o_item, o_ws, o_ws + timedelta(days))
    /\ o_stage' = "expanded"
    /\ UNCHANGED <<o_item, o_ws>>

NextOcc ==
    \/ Expand /\ UNCHANGED <<syncvars, diffvars, aggvars, extvars>>

SpecOcc == InitOcc /\ [][NextOcc]_vars

TimeOfDay(t) == t % TicksPerDay
Anchor == IF o_item.start_date = None THEN o_ws
          ELSE _datetime_or_none(o_item.start_date)[1]
Listed == {i \in 0..(Week - 1) :
              \E j \in 1..Len(o_item.repeat) : o_item.repeat[j] = RFC5545_DAYS[i + 1]}
\* the instants of [window_start, window_end) on weekday i at the anchor's time of day
ExpectedStarts(i) ==
    {t \in o_ws..(o_ws + timedelta(days) - 1) :
        weekday(t) = i /\ TimeOfDay(t) = TimeOfDay(Anchor)}
Emitted(t) == Cardinality({j \in 1..Len(o_out) : o_out[j][1] = t})

\* C11: for a descriptor with a weekday list whose anchor is at or before
\* window_start, _item_occurrences emits, for each listed weekday, exactly the
\* dates of [window_start, window_end) on that weekday, each once, and nothing
\* else.
C11_WeeklyExpansion ==
    (o_stage = "expanded" /\ Anchor <= o_ws) =>
        /\ \A j \in 1..Len(o_out) :
              /\ weekday(o_out[j][1]) \in Listed
              /\ o_out[j][1] \in ExpectedStarts(weekday(o_out[j][1]))
        /\ \A i \in Listed : \A t \in ExpectedStarts(i) : Emitted(t) = 1

\* weekly on Monday over 2025-01-01..2025-01-15 gives Jan 6 and Jan 13
C11_Witness ==
    /\ o_stage = "expanded"
    /\ o_item.repeat = <<"mon">>
    /\ o_item.start_date = Some(WindowStartDay - 2)
    /\ o_ws = window_start
    /\ o_out = <<<<timedelta(14), timedelta(14)>>, <<timedelta(21), timedelta(21)>>>>

\* call i is the patch that follows an insert answered 409
FallbackPatch(i) ==
    /\ i > 1
    /\ calls[i].op = "patch"
    /\ calls[i - 1].op = "insert"
    /\ calls[i - 1].slot = calls[i].slot
    /\ calls[i - 1].status = 409

\* C27: in one run the owned entries are listed once, before the first
\* mutating call, and not again; every decision follows that one snapshot:
\* inserts go to keys absent from it, deletes and computed patches to keys
\* present in it, and a computed patch is the diff against the snapshot view,
\* whatever the run has written to the calendar meanwhile.
C27_SingleSnapshot ==
    /\ pc = "fetch" => listed = 0 /\ calls = <<>>
    /\ pc \in {"upsert", "delete", "done", "raised"} => listed = 1
    /\ \A i \in CallIdx :
          /\ calls[i].op = "insert" => existing_map[calls[i].key] = None
          /\ calls[i].op = "delete" => existing_map[calls[i].key] # None
          /\ (calls[i].op = "patch" /\ ~FallbackPatch(i)) =>
                /\ existing_map[calls[i].key] # None
                /\ calls[i].sent =
                      DOMAIN _diff_for_patch(existing_map[calls[i].key][1],
                                             DesiredView(calls[i].slot))

\* a finished run that inserted a key and, the snapshot still showing it
\* absent, tried to insert it again for a later desired entry
C27_Witness ==
    /\ pc = "done"
    /\ listed = 1
    /\ \E i, j \in CallIdx :
          /\ i < j
          /\ calls[i].op = "insert" /\ calls[i].status = 200
          /\ calls[j].op = "insert" /\ calls[j].status = 409
          /\ calls[j].key = calls[i].key
          /\ existing_map[calls[i].key] = None
          /\ cal[calls[i].key] # None

\* The fields the claim lists as managed: title, description, location,
\* color, start, end, private properties, attendees.
ListedKeys == {"summary", "description", "location", "colorId", "start", "end",
               "extendedProperties", "attendees"}

\* C25 (as claimed): a patch computed for an existing entry holds only keys
\* of the listed managed set, so never reminders.
C25_PatchKeysListed ==
    d_stage = "patched" => DOMAIN d_patch \subseteq ListedKeys

\* C25 (amended): a patch computed for an existing entry holds only keys of
\* the listed managed set and, when the desired entry specifies reminders,
\* possibly "reminders" with the desired value; reminders of the existing
\* entry that the desired entry does not specify are never in a patch.
C25_PatchKeysSpecified ==
    d_stage = "patched" =>
        /\ DOMAIN d_patch \subseteq ListedKeys \cup {"reminders"}
        /\ "reminders" \in DOMAIN d_patch =>
              /\ d_des.reminders # None
              /\ d_patch["reminders"] = d_des.reminders

\* an entry with reminders is patched by a desired entry that specifies none
C25_Witness ==
    /\ d_stage = "patched"
    /\ d_cur.reminders # None
    /\ d_des.reminders = None
    /\ DOMAIN d_patch # {}
    /\ "reminders" \notin DOMAIN d_patch

\* value v of patch key k is null or empty
EmptyValue(k, v) ==
    \/ v = None
    \/ k \in {"summary", "description", "location", "colorId", "attendees"} /\ v[1] = <<>>
    \/ k \in {"extendedProperties", "reminders"} /\ v[1] = {}

\* C26 (as claimed): no patch produced by _diff_for_patch holds a key whose
\* value is null or empty, an empty private-property bag included.
C26_NoEmptyValueInPatch ==
    d_stage = "patched" =>
        \A k \in DOMAIN d_patch : ~EmptyValue(k, d_patch[k])

\* ======================================================================
\* sync_calendar interrupted and run again             (gcal_client.py)
\* ======================================================================

\* The run is cancelled between two service calls of the upsert or delete
\* pass; what it wrote to the calendar stays, its local state is lost, and the
\* caller starts sync_calendar again with the same slots.
Abort ==
    /\ pc \in {"upsert", "delete"}
    /\ ~aborted
    /\ run = 1
    /\ aborted' = TRUE
    /\ pc' = "fetch"
    /\ existing_map' = [k \in Keys |-> None]
    /\ idx' = 1
    /\ dpending' = {}
    /\ inserted' = 0
    /\ patched' = 0
    /\ unchanged' = 0
    /\ deleted' = 0
    /\ results' = <<>>
    /\ calls' = <<>>
    /\ listed' = 0
    /\ UNCHANGED <<cal, desired, delete_orphans, run>>

NextSyncAbort ==
    \/ Fetch /\ UNCHANGED <<diffvars, aggvars, occvars, extvars>>
    \/ UpsertInsert /\ UNCHANGED <<diffvars, aggvars, occvars, extvars>>
    \/ UpsertCompare /\ UNCHANGED <<diffvars, aggvars, occvars, extvars>>
    \/ EndUpsert /\ UNCHANGED <<diffvars, aggvars, occvars, extvars>>
    \/ DeleteStep /\ UNCHANGED <<diffvars, aggvars, occvars, extvars>>
    \/ EndDelete /\ UNCHANGED <<diffvars, aggvars, occvars, extvars>>
    \/ Rerun /\ UNCHANGED <<diffvars, aggvars, occvars, extvars>>
    \/ Abort /\ UNCHANGED <<diffvars, aggvars, occvars, custvars, routevars, morevars>>

SpecSyncAbort == InitSync /\ [][NextSyncAbort]_vars

\* C22 (as claimed): when a run was aborted after some prefix of its calls
\* and a complete run with the same desired set (of distinct keys) followed,
\* a further complete run issues no insert, patch or delete call.
C22_NoCallAfterRecovery ==
    (aborted /\ run = 2 /\ pc = "done" /\ NoRepeatedKey)
        => \A i \in CallIdx : calls[i].op \notin Mutating

\* ======================================================================
\* CheckfrontClient.get_customer / cache_customer        (cf_client.py)
\* ======================================================================

MaxCustCalls == 4

CustomerIds == {"1", "2"}

\* a dict is the set of its <<key, value>> items
DictGet(d, k) ==
    IF \E kv \in d : kv[1] = k
    THEN Some((CHOOSE kv \in d : kv[1] = k)[2])
    ELSE None

\* what the booking source may answer for /api/3.0/customer/<cid>
CustomerRecords(cid) ==
    { {},
      {<<"id", cid>>, <<"name", "a">>},
      {<<"id", cid>>, <<"name", "b">>} }

\* data of a successful response: with a "customer" dict, or without one
Responses(cid) ==
    {Some(rec) : rec \in CustomerRecords(cid)} \cup {None}

\* customers handed to cache_customer
SeedCustomers ==
    UNION { { {<<"id", cid>>, <<"name", "s">>},
              {<<"customer_id", cid>>},
              {<<"id", "">>, <<"customer_id", cid>>} } : cid \in CustomerIds }
    \cup { {<<"name", "s">>}, {} }

\* x or y, on optional strings
OrStr(x, y) == IF x # None /\ x[1] # "" THEN x ELSE y

\* `if cid in cache` asks for a non-empty cached record instead
InCacheNonEmpty(cache, cid) == cache[cid] # None /\ cache[cid][1] # {}

\* cid in self._customer_cache
InCache(cache, cid) == cache[cid] # None

CustCall(op, cid, remote, ok, ret) ==
    [op |-> op, cid |-> cid, remote |-> remote, ok |-> ok, ret |-> ret]

\* get_customer(cid), the remote request failing
GetCustomerFails(cid) ==
    /\ ~InCache(c_cache, cid)
    /\ c_calls' = Append(c_calls, CustCall("get", Some(cid), TRUE, FALSE, None))
    /\ UNCHANGED c_cache

\* get_customer(cid), answered from the cache or by one remote request
GetCustomer(cid) ==
    IF InCache(c_cache, cid)
    THEN /\ c_calls' = Append(c_calls,
                CustCall("get", Some(cid), FALSE, TRUE, c_cache[cid]))
         /\ UNCHANGED c_cache
    ELSE \E data \in Responses(cid) :
            LET cust == IF data # None THEN data[1] ELSE {}
            IN /\ c_cache' = [c_cache EXCEPT ![cid] = Some(cust)]
               /\ c_calls' = Append(c_calls,
                      CustCall("get", Some(cid), TRUE, TRUE, Some(cust)))

\* cache_customer(customer)
CacheCustomer(customer) ==
    LET cid == OrStr(OrStr(DictGet(customer, "id"),
                           DictGet(customer, "customer_id")), Some(""))
    IN IF cid[1] # ""
       THEN /\ c_cache' = [c_cache EXCEPT ![cid[1]] = Some(customer)]
            /\ c_calls' = Append(c_calls,
                   CustCall("seed", cid, FALSE, TRUE, Some(customer)))
       ELSE /\ c_calls' = Append(c_calls,
                   CustCall("seed", None, FALSE, TRUE, Some(customer)))
            /\ UNCHANGED c_cache

InitCust ==
    /\ c_cache = [cid \in CustomerIds |-> None]
    /\ c_calls = <<>>
    /\ aborted = FALSE
    /\ RouteIdle
    /\ MoreIdle
    /\ SyncIdle
    /\ DiffIdle
    /\ AggIdle
    /\ OccIdle

CustFrame == UNCHANGED <<syncvars, diffvars, aggvars, occvars, aborted, routevars, morevars>>

NextCust ==
    \/ /\ Len(c_calls) < MaxCustCalls
       /\ \E cid \in CustomerIds : GetCustomer(cid)
       /\ CustFrame
    \/ /\ Len(c_calls) < MaxCustCalls
       /\ \E cid \in CustomerIds : GetCustomerFails(cid)
       /\ CustFrame
    \/ /\ Len(c_calls) < MaxCustCalls
       /\ \E customer \in SeedCustomers : CacheCustomer(customer)
       /\ CustFrame

SpecCust == InitCust /\ [][NextCust]_vars

\* the call stored a record for cid: a fetch that succeeded, or a seed
Stores(c, cid) ==
    /\ c.cid = Some(cid)
    /\ c.ok
    /\ \/ c.op = "seed"
       \/ c.op = "get" /\ c.remote

StoredBefore(i, cid) == {j \in 1..(i - 1) : Stores(c_calls[j], cid)}

\* C21: over the get_customer calls of one client, a customer id whose
\* fetch succeeded is requested remotely at most once; a call made after a
\* successful fetch or a cache_customer seed of the same id issues no remote
\* request and returns the record stored last (the empty record included);
\* a call with nothing stored before it goes to the booking source.
C21_CustomerMemoization ==
    /\ \A cid \in CustomerIds :
          Cardinality({i \in DOMAIN c_calls :
              /\ c_calls[i].op = "get"
              /\ c_calls[i].cid = Some(cid)
              /\ c_calls[i].remote
              /\ c_calls[i].ok}) <= 1
    /\ \A i \in DOMAIN c_calls :
          c_calls[i].op = "get" =>
             LET cid == c_calls[i].cid[1]
                 prior == StoredBefore(i, cid)
             IN IF prior = {}
                THEN c_calls[i].remote
                ELSE /\ ~c_calls[i].remote
                     /\ c_calls[i].ret = c_calls[Max(prior)].ret

\* an empty fetched record answered from the cache, and a seeded id that
\* was never requested remotely
C21_Witness ==
    /\ \E i, j \in DOMAIN c_calls :
          /\ i < j
          /\ c_calls[i].op = "get" /\ c_calls[i].remote /\ c_calls[i].ok
          /\ c_calls[i].ret = Some({})
          /\ c_calls[j].op = "get" /\ ~c_calls[j].remote
          /\ c_calls[j].cid = c_calls[i].cid
          /\ c_calls[j].ret = Some({})
    /\ \E i, j \in DOMAIN c_calls :
          /\ i < j
          /\ c_calls[i].op = "seed" /\ c_calls[i].cid # None
          /\ c_calls[j].op = "get" /\ ~c_calls[j].remote
          /\ c_calls[j].cid = c_calls[i].cid
          /\ c_calls[j].ret = c_calls[i].ret
          /\ \A k \in DOMAIN c_calls :
                c_calls[k].cid = c_calls[i].cid => ~c_calls[k].remote

\* ======================================================================
\* Routing of slots to calendars by tag        (adapters.py, gcal_sync.py)
\* ======================================================================

MaxCalendars == 2
MaxSlots == 2
MaxTags == 2

Tags == {"Joey", "Cub"}
CalendarIds == {"A", "B"}
DefaultCalendarId == "D"

\* the Google Calendar config: the calendar definitions in config order and
\* the optional default_calendar_id
Configs ==
    [ calendars : SeqsUpTo([calendarid : CalendarIds, tags : SUBSET Tags],
                           MaxCalendars) \ {<<>>},
      default_calendar_id : {None, Some(DefaultCalendarId)} ]

\* Python values of two types: a == b is False across the types
PyStr(x) == <<"str", x>>
PyDict(d) == <<"dict", d>>

\* x in xs
PyIn(x, xs) == \E i \in 1..Len(xs) : xs[i] = x

\* set(xs)
SetOf(xs) == {xs[i] : i \in 1..Len(xs)}

RECURSIVE AdaptersMatches(_, _)
AdaptersMatches(tag_set, calendars) ==
    IF calendars = <<>> THEN <<>>
    ELSE LET c == Head(calendars)
         IN (IF tag_set \cap c.tags # {} THEN <<PyDict(c)>> ELSE <<>>)
            \o AdaptersMatches(tag_set, Tail(calendars))

\* adapters.resolve_calendars_for_tags
resolve_calendars_for_tags(tag_names, cfg) ==
    AdaptersMatches(SetOf(tag_names), cfg.calendars)

RECURSIVE SyncMatches(_, _, _)
SyncMatches(tag_set, calendars, seen) ==
    IF calendars = <<>> THEN <<>>
    ELSE LET cal_def == Head(calendars)
             calendarid == cal_def.calendarid
         IN IF tag_set \cap cal_def.tags # {} /\ calendarid \notin seen
            THEN <<PyStr(calendarid)>>
                 \o SyncMatches(tag_set, Tail(calendars), seen \cup {calendarid})
            ELSE SyncMatches(tag_set, Tail(calendars), seen)

\* gcal_sync._resolve_calendars_for_tags
_resolve_calendars_for_tags(tag_names, cfg) ==
    SyncMatches(SetOf(tag_names), cfg.calendars, {})

\* _tag_names_of(s), s a flat dict
_tag_names_of(s) == s.tags

RECURSIVE filter_slots_for_calendar(_, _, _)
filter_slots_for_calendar(slots, cal_id, cfg) ==
    IF slots = <<>> THEN <<>>
    ELSE LET s == Head(slots)
             cal_ids == resolve_calendars_for_tags(_tag_names_of(s), cfg)
         IN (IF PyIn(cal_id, cal_ids) THEN <<s>> ELSE <<>>)
            \o filter_slots_for_calendar(Tail(slots), cal_id, cfg)

Slot(i, tags) == [id |-> i, tags |-> tags]

InitRoute ==
    /\ r_stage = "start"
    /\ r_cfg \in Configs
    /\ r_tags \in SeqsUpTo(Tags, MaxTags)
    /\ \E tagss \in SeqsUpTo(SeqsUpTo(Tags, 1), MaxSlots) :
          r_slots = [i \in 1..Len(tagss) |-> Slot(i, tagss[i])]
    /\ r_resolved = <<>>
    /\ r_ids = <<>>
    /\ r_filtered = <<>>
    /\ aborted = FALSE
    /\ CustIdle
    /\ MoreIdle
    /\ SyncIdle
    /\ DiffIdle
    /\ AggIdle
    /\ OccIdle

\* both resolvers applied to the tag list
Resolve ==
    /\ r_stage = "start"
    /\ r_resolved' = resolve_calendars_for_tags(r_tags, r_cfg)
    /\ r_ids' = _resolve_calendars_for_tags(r_tags, r_cfg)
    /\ r_stage' = "resolved"
    /\ UNCHANGED <<r_cfg, r_tags, r_slots, r_filtered>>

\* push_slots_to_calendars: the arguments of its sync_calendar call for each
\* calendar of the config
push_slots_to_calendars ==
    /\ r_stage = "resolved"
    /\ r_filtered' =
          [i \in 1..Len(r_cfg.calendars) |->
              LET cal_id == PyStr(r_cfg.calendars[i].calendarid)
              IN [ calendar_id |-> cal_id,
                   slots |-> filter_slots_for_calendar(r_slots, cal_id, r_cfg),
                   delete_orphans |-> TRUE ]]
    /\ r_stage' = "pushed"
    /\ UNCHANGED <<r_cfg, r_tags, r_slots, r_resolved, r_ids>>

RouteFrame == UNCHANGED <<syncvars, diffvars, aggvars, occvars, aborted, custvars, morevars>>

NextRoute ==
    \/ Resolve /\ RouteFrame
    \/ push_slots_to_calendars /\ RouteFrame

SpecRoute == InitRoute /\ [][NextRoute]_vars

\* the ids of the calendars whose tags meet tag_set, each once, in config order
RECURSIVE MatchingIds(_, _, _)
MatchingIds(tag_set, calendars, seen) ==
    IF calendars = <<>> THEN <<>>
    ELSE LET c == Head(calendars)
         IN IF tag_set \cap c.tags # {} /\ c.calendarid \notin seen
            THEN <<PyStr(c.calendarid)>>
                 \o MatchingIds(tag_set, Tail(calendars), seen \cup {c.calendarid})
            ELSE MatchingIds(tag_set, Tail(calendars), seen)

Routed(tag_names, cfg) ==
    LET ids == MatchingIds(SetOf(tag_names), cfg.calendars, {})
    IN IF ids = <<>> /\ cfg.default_calendar_id # None
       THEN <<PyStr(cfg.default_calendar_id[1])>>
       ELSE ids

\* C23 (as claimed): each resolver returns the ids of exactly the calendars
\* whose configured tags intersect the tag list, deduplicated and in config
\* order, and [default_calendar_id] when none matches and a default is set.
C23_TagRouting ==
    r_stage = "resolved" =>
        /\ r_resolved = Routed(r_tags, r_cfg)
        /\ r_ids = Routed(r_tags, r_cfg)

\* the slots whose tags meet the tags configured for a calendar with this id
RECURSIVE TaggedFor(_, _, _)
TaggedFor(slots, cal_id, cfg) ==
    IF slots = <<>> THEN <<>>
    ELSE LET s == Head(slots)
         IN (IF \E i \in 1..Len(cfg.calendars) :
                   /\ PyStr(cfg.calendars[i].calendarid) = cal_id
                   /\ SetOf(s.tags) \cap cfg.calendars[i].tags # {}
             THEN <<s>> ELSE <<>>)
            \o TaggedFor(Tail(slots), cal_id, cfg)

\* C24 (as claimed): for each calendar of the config the desired set that
\* push_slots_to_calendars hands to sync_calendar is, in input order, every
\* slot whose tags intersect the tags configured for that calendar id.
C24_FilterKeepsTaggedSlots ==
    r_stage = "pushed" =>
        \A i \in 1..Len(r_filtered) :
            r_filtered[i].slots =
                TaggedFor(r_slots, r_filtered[i].calendar_id, r_cfg)

\* ======================================================================
\* Customers of an aggregate and the group rollup   (cf_middle_layer.py)
\* ======================================================================

MaxLines == 2

BookingCustomerIds == {"1", "2"}

PyInt(n) == <<"int", n>>

\* the number a numeric customer id stands for
IntOf(cid) == IF cid = "1" THEN 1 ELSE 2

\* customer records of the booking source for customer id cid: the "id" field
\* missing, the id as the booking carries it, or the id as a number; the
\* meta fields scout_group_booking and your_leaders_email_address (e-mail
\* addresses are numbers, in the order of the strings)
CustomerDicts(cid) ==
    [ id : {None, Some(PyStr(cid)), Some(PyInt(IntOf(cid)))},
      meta : { [scout_group_booking |-> None, your_leaders_email_address |-> None],
               [scout_group_booking |-> Some("G1"), your_leaders_email_address |-> Some(1)],
               [scout_group_booking |-> Some("G1"), your_leaders_email_address |-> Some(2)],
               [scout_group_booking |-> Some("G2"), your_leaders_email_address |-> Some(1)] } ]

\* what get_customer returns: the record, or the empty dict
GetCustomerResults(cid) == {Some(c) : c \in CustomerDicts(cid)} \cup {None}

\* the bookings of the index that fall on the aggregate, one line each
RollupBookings ==
    [customer_id : {None} \cup {Some(cid) : cid \in BookingCustomerIds}, qty : {1, 2}]

\* d[key] = value on a dict kept as the set of its items
DictSet(d, key, value) == {kv \in d : kv[1] # key} \cup {<<key, value>>}

\* lines 344-413 for one booking: the line is appended with the booking's
\* customer_id as a string, the customer is filed under its own id, or under
\* the booking's customer_id when it has none
AttachLine ==
    /\ g_stage = "attach"
    /\ Len(g_slot.booking_items) < Len(g_lines)
    /\ LET booking_id == Len(g_slot.booking_items) + 1
           booking == g_lines[booking_id]
           customer_id == booking.customer_id
           customer == IF customer_id # None THEN g_dir[customer_id[1]] ELSE None
           flat_booking == [booking_id |-> booking_id, customer_id |-> customer_id,
                            qty |-> booking.qty]
           cid == IF customer = None THEN None
                  ELSE IF customer[1].id # None THEN customer[1].id
                  ELSE Some(PyStr(customer_id[1]))
       IN  g_slot' = [booking_items |-> Append(g_slot.booking_items, flat_booking),
                      customers |-> IF customer # None
                                    THEN DictSet(g_slot.customers, cid[1], customer[1])
                                    ELSE g_slot.customers]
    /\ UNCHANGED <<g_stage, g_dir, g_lines, g_out>>

\* A mutant of AddQty: the group total is assigned, not accumulated.
AddQtyAssigned(total_qty, qty) == qty

\* group_totals[grp]["total_qty"] += qty
AddQty(total_qty, qty) == total_qty + qty

\* (slot.customers or {}).get(cid) if cid else None
CustomerOfLine(customers, bi) ==
    IF bi.customer_id = None THEN None
    ELSE DictGet(customers, PyStr(bi.customer_id[1]))

\* grp = meta.get("scout_group_booking") or "Unknown"
GroupOfLine(customers, bi) ==
    LET cust == CustomerOfLine(customers, bi)
    IN  IF cust # None /\ cust[1].meta.scout_group_booking # None
        THEN cust[1].meta.scout_group_booking[1]
        ELSE "Unknown"

\* email = meta.get("your_leaders_email_address") or None
EmailOfLine(customers, bi) ==
    LET cust == CustomerOfLine(customers, bi)
    IN  IF cust # None THEN cust[1].meta.your_leaders_email_address ELSE None

\* the loop over slot.booking_items of lines 436-461
RECURSIVE GroupTotals(_, _, _)
GroupTotals(booking_items, customers, acc) ==
    IF booking_items = <<>> THEN acc
    ELSE LET bi == Head(booking_items)
             grp == GroupOfLine(customers, bi)
             email == EmailOfLine(customers, bi)
             old == IF grp \in DOMAIN acc THEN acc[grp]
                    ELSE [total_qty |-> 0, emails |-> {}]
             new == [total_qty |-> AddQty(old.total_qty, bi.qty),
                     emails |-> IF email # None THEN old.emails \cup {email[1]}
                                ELSE old.emails]
         IN  GroupTotals(Tail(booking_items), customers,
                         [g \in DOMAIN acc \cup {grp} |-> IF g = grp THEN new ELSE acc[g]])

\* lines 428-467: total_booked and group_totals of the projected record,
\* the e-mail sets turned into sorted lists
ProjectRollup ==
    /\ g_stage = "attach"
    /\ Len(g_slot.booking_items) = Len(g_lines)
    /\ LET totals == GroupTotals(g_slot.booking_items, g_slot.customers, <<>>)
       IN  g_out' = [total_booked |-> SumQty(g_slot.booking_items),
                     group_totals |->
                        [g \in DOMAIN totals |->
                            [total_qty |-> totals[g].total_qty,
                             emails |-> SortedSeq(totals[g].emails)]]]
    /\ g_stage' = "projected"
    /\ UNCHANGED <<g_dir, g_lines, g_slot>>

InitRollup ==
    /\ g_stage = "attach"
    /\ g_dir \in [BookingCustomerIds -> UNION {GetCustomerResults(cid) : cid \in BookingCustomerIds}]
    /\ \A cid \in BookingCustomerIds : g_dir[cid] \in GetCustomerResults(cid)
    /\ g_lines \in SeqsUpTo(RollupBookings, MaxLines)
    /\ g_slot = [booking_items |-> <<>>, customers |-> {}]
    /\ g_out = <<>>
    /\ PagerIdle
    /\ KeyIdle
    /\ TripIdle
    /\ aborted = FALSE
    /\ CustIdle
    /\ RouteIdle
    /\ SyncIdle
    /\ DiffIdle
    /\ AggIdle
    /\ OccIdle

RollupFrame == UNCHANGED <<syncvars, diffvars, aggvars, occvars, aborted, custvars, routevars, pagervars, keyvars, tripvars>>

NextRollup ==
    \/ AttachLine /\ RollupFrame
    \/ ProjectRollup /\ RollupFrame

SpecRollup == InitRollup /\ [][NextRollup]_vars

RECURSIVE SumOver(_, _)
SumOver(f, S) ==
    IF S = {} THEN 0
    ELSE LET x == CHOOSE y \in S : TRUE IN f[x] + SumOver(f, S \ {x})

\* the attached lines that belong to group g: those whose customer_id finds,
\* in the customers of the aggregate, a record with that label; "Unknown"
\* takes the lines without such a record or label
LinesOfGroup(g) ==
    {i \in 1..Len(g_slot.booking_items) :
        LET bi == g_slot.booking_items[i]
            found == {kv \in g_slot.customers :
                         bi.customer_id # None /\ kv[1] = PyStr(bi.customer_id[1])}
            labels == {kv[2].meta.scout_group_booking[1] :
                          kv \in {x \in found : x[2].meta.scout_group_booking # None}}
        IN  IF labels = {} THEN g = "Unknown" ELSE g \in labels}

\* C33: in the projected record every attached line counts in exactly one
\* group, each group's total_qty is the sum of the qty of its lines, the
\* totals of all groups add up to total_booked, and each group's e-mail list
\* is strictly ascending (sorted, without duplicates).
C33_GroupRollupConservation ==
    g_stage = "projected" =>
        LET gt == g_out.group_totals
            qtys == [i \in 1..Len(g_slot.booking_items) |-> g_slot.booking_items[i].qty]
        IN  /\ \A i \in 1..Len(g_slot.booking_items) :
                  Cardinality({g \in DOMAIN gt : i \in LinesOfGroup(g)}) = 1
            /\ \A g \in DOMAIN gt : gt[g].total_qty = SumOver(qtys, LinesOfGroup(g))
            /\ SumOver([g \in DOMAIN gt |-> gt[g].total_qty], DOMAIN gt) = g_out.total_booked
            /\ g_out.total_booked = SumOver(qtys, 1..Len(g_slot.booking_items))
            /\ \A g \in DOMAIN gt : \A i, j \in 1..Len(gt[g].emails) :
                  i < j => gt[g].emails[i] < gt[g].emails[j]

\* two lines in one labelled group with two e-mail addresses, the later
\* address attached first
C33_Witness ==
    /\ g_stage = "projected"
    /\ \E g \in DOMAIN g_out.group_totals :
          /\ g # "Unknown"
          /\ Cardinality(LinesOfGroup(g)) = 2
          /\ Len(g_out.group_totals[g].emails) = 2
          /\ EmailOfLine(g_slot.customers, g_slot.booking_items[1]) = Some(2)

\* C37 (as claimed): for every attached line whose booking has a non-empty
\* customer record, the customers of the aggregate hold that record under
\* the customer_id stored on the line.
C37_CustomerFiledUnderLineId ==
    \A i \in 1..Len(g_slot.booking_items) :
        LET bi == g_slot.booking_items[i]
        IN  (bi.customer_id # None /\ g_dir[bi.customer_id[1]] # None) =>
                <<PyStr(bi.customer_id[1]), g_dir[bi.customer_id[1]][1]>> \in g_slot.customers

\* ======================================================================
\* Paginated reads of the booking source   (cf_client.py)
\* ======================================================================

MaxPages == 3
MaxRowsPerPage == 2
RowIds == 1..3

\* a page of a response: the rows in the order the response carries them
\* (for the booking index the rows are the keys of "booking/index")
PageRows == {r \in SeqsUpTo(RowIds, MaxRowsPerPage) :
                \A i, j \in 1..Len(r) : i # j => r[i] # r[j]}

\* the pages of the source; every response reports request.pages = Len(src)
PagedSources == {src \in SeqsUpTo(PageRows, MaxPages) : Len(src) >= 1}

\* sorted(idx.items(), key=lambda kv: int(str(kv[0])))
SortedRows(rows) == SortedSeq(Range(rows))

\* one turn of the loop of list_item_events: request the page, stop on a
\* page without rows, else extend all_events and stop on the last page
EventsPage ==
    /\ p_kind = "events"
    /\ p_stage = "paging"
    /\ LET data == [events |-> p_src[p_page], pages |-> Len(p_src)]
           evs == data.events
       IN  /\ p_req' = Append(p_req, p_page)
           /\ IF evs = <<>>
              THEN /\ p_stage' = "returned"
                   /\ UNCHANGED <<p_out, p_page>>
              ELSE /\ p_out' = p_out \o evs
                   /\ IF p_page >= data.pages
                      THEN p_stage' = "returned" /\ UNCHANGED p_page
                      ELSE p_stage' = "paging" /\ p_page' = p_page + 1
    /\ UNCHANGED <<p_kind, p_src>>

\* one turn of the loop of list_bookings_index, consumed by list(...): the
\* rows of the page are yielded by ascending index, then the last page ends
\* the generator
BookingsPage ==
    /\ p_kind = "bookings"
    /\ p_stage = "paging"
    /\ LET data == [index |-> p_src[p_page], pages |-> Len(p_src)]
       IN  /\ p_req' = Append(p_req, p_page)
           /\ p_out' = p_out \o SortedRows(data.index)
           /\ IF p_page >= data.pages
              THEN p_stage' = "returned" /\ UNCHANGED p_page
              ELSE p_stage' = "paging" /\ p_page' = p_page + 1
    /\ UNCHANGED <<p_kind, p_src>>

\* the loop over bookings of extract_checkfront_data begins with the list
\* that list(cf.list_bookings_index(...)) built; build_buckets begins with
\* the list list_item_events returned
StartPass ==
    /\ p_stage = "returned"
    /\ p_stage' = "pass"
    /\ UNCHANGED <<p_kind, p_src, p_page, p_req, p_out>>

InitPager ==
    /\ p_stage = "paging"
    /\ p_kind \in {"events", "bookings"}
    /\ p_src \in PagedSources
    /\ p_page = 1
    /\ p_req = <<>>
    /\ p_out = <<>>
    /\ RollIdle
    /\ KeyIdle
    /\ TripIdle
    /\ aborted = FALSE
    /\ CustIdle
    /\ RouteIdle
    /\ SyncIdle
    /\ DiffIdle
    /\ AggIdle
    /\ OccIdle

PagerFrame == UNCHANGED <<syncvars, diffvars, aggvars, occvars, aborted, custvars, routevars, rollvars, keyvars, tripvars>>

NextPager ==
    \/ EventsPage /\ PagerFrame
    \/ BookingsPage /\ PagerFrame
    \/ StartPass /\ PagerFrame

SpecPager == InitPager /\ [][NextPager]_vars

RECURSIVE AllRows(_, _)
AllRows(src, kind) ==
    IF src = <<>> THEN <<>>
    ELSE (IF kind = "bookings" THEN SortedRows(Head(src)) ELSE Head(src))
         \o AllRows(Tail(src), kind)

\* C34 (as claimed): when a paginated read has returned, pages 1..P were
\* requested in increasing order, each exactly once, and every row of every
\* page was returned (booking rows by ascending index within a page); the
\* pass over the rows starts only after that.
C34_PagesFullyDrained ==
    p_stage \in {"returned", "pass"} =>
        /\ p_req = [i \in 1..Len(p_src) |-> i]
        /\ p_out = AllRows(p_src, p_kind)

\* ======================================================================
\* Outcome accounting and ownership of sync_calendar   (gcal_client.py)
\* ======================================================================

\* the keys of the snapshot that the desired list does not name
OrphanKeys == {k \in Keys : existing_map[k] # None /\ k \notin active_ids(desired)}

\* the number of records of the upsert pass with the given status
Outcomes(status) ==
    Cardinality({i \in 1..Len(desired) : i <= Len(results) /\ results[i].status = status})

\* the insert issued for the desired entry i was answered 409
InsertRefused(i) ==
    \E c \in 1..Len(calls) :
        calls[c].op = "insert" /\ calls[c].slot = i /\ calls[c].status = 409

\* what every reading of the accounting shares: one record per desired
\* entry, in order, the counters equal to the records, the orphans deleted
Accounted ==
    /\ Len(results) = Len(desired) + deleted
    /\ \A i \in 1..Len(desired) :
          /\ results[i].event_id = desired[i].event_id
          /\ results[i].status \in {"inserted", "patched", "unchanged"}
          /\ results[i].status = "inserted" => existing_map[desired[i].event_id] = None
          /\ results[i].status = "unchanged" => existing_map[desired[i].event_id] # None
    /\ inserted = Outcomes("inserted")
    /\ patched = Outcomes("patched")
    /\ unchanged = Outcomes("unchanged")
    /\ inserted + patched + unchanged = Len(desired)
    /\ deleted = IF delete_orphans THEN Cardinality(OrphanKeys) ELSE 0
    /\ {results[i].event_id : i \in Len(desired) + 1..Len(results)}
          = IF delete_orphans THEN OrphanKeys ELSE {}
    /\ \A i \in Len(desired) + 1..Len(results) : results[i].status = "deleted"

\* C35 (as claimed): when a run completes, every desired entry has exactly
\* one outcome, inserted only if its key was absent from the existing map,
\* unchanged or patched only if it was present; the three counters add up to
\* the number of desired entries, deleted is the number of orphan keys and
\* results has one record per desired entry and one per deleted orphan.
C35_PatchedOnlyIfPresent ==
    pc = "done" =>
        /\ Accounted
        /\ \A i \in 1..Len(desired) :
              results[i].status = "patched" => existing_map[desired[i].event_id] # None

\* C35 (amended): the same accounting, where patched is the outcome of an
\* entry whose key was present in the existing map, or whose key was absent
\* and whose insert was answered 409.
C35_OutcomeAccounting ==
    pc = "done" =>
        /\ Accounted
        /\ \A i \in 1..Len(desired) :
              results[i].status = "patched" =>
                  \/ existing_map[desired[i].event_id] # None
                  \/ InsertRefused(i)

\* a completed run with an inserted entry, an entry patched after a refused
\* insert and a deleted orphan
C35_Witness ==
    /\ pc = "done"
    /\ inserted >= 1
    /\ deleted >= 1
    /\ \E i \in 1..Len(desired) :
          /\ results[i].status = "patched"
          /\ existing_map[desired[i].event_id] = None

\* ======================================================================
\* Identity keys   (gcal_sync.py, helpers.py, adapters.py)
\* ======================================================================

MaxSkuLen == 2
MaxKeyLen == 256

\* the characters of a sku: a letter, a blank, an underscore
SkuChars == {"A", " ", "_"}
Skus == SeqsUpTo(SkuChars, MaxSkuLen)

\* occurrence starts, to the minute, in one time zone
Starts == [year : {2025}, month : {1, 10}, day : {1, 2}, hour : {9}, minute : {1, 10}]

Digits == <<"0", "1", "2", "3", "4", "5", "6", "7", "8", "9">>
Digit(n) == Digits[n + 1]

\* %m, %d, %H, %M: two digits; %Y: four
Pad2(n) == <<Digit(n \div 10), Digit(n % 10)>>
Pad4(n) == <<Digit(n \div 1000), Digit((n \div 100) % 10)>> \o Pad2(n % 100)

\* [^A-Za-z0-9_-]
AllowedTagChar(ch) == ch \in {"A", "s", "k", "u", "_", "-"} \cup Range(Digits)

\* _ALLOWED_TAG_CHARS.sub("_", (sku or "sku").strip())
_safe_sku(sku) ==
    LET given == IF sku = <<>> THEN <<"s", "k", "u">> ELSE sku
        stripped == Strip(given)
    IN  [i \in 1..Len(stripped) |->
            IF AllowedTagChar(stripped[i]) THEN stripped[i] ELSE "_"]

\* s[:n]
Truncate(s, n) == SubSeq(s, 1, IF Len(s) < n THEN Len(s) ELSE n)

\* dt.strftime("%Y_%m_%d_%H_%M"); f"{_safe_sku(sku)}_{dt_str}"[:256]
make_event_key(sku, dt) ==
    LET dt_str == Pad4(dt.year) \o <<"_">> \o Pad2(dt.month) \o <<"_">> \o Pad2(dt.day)
                  \o <<"_">> \o Pad2(dt.hour) \o <<"_">> \o Pad2(dt.minute)
    IN  Truncate(_safe_sku(sku) \o <<"_">> \o dt_str, MaxKeyLen)

\* "code": f"{slot.get('sku')}_{_to_datetime(start).strftime("%Y_%M_%d_%H_%m")}"
SlotCode(slot) ==
    LET dt == slot.start
    IN  slot.sku \o <<"_">> \o Pad4(dt.year) \o <<"_">> \o Pad2(dt.minute) \o <<"_">>
        \o Pad2(dt.day) \o <<"_">> \o Pad2(dt.hour) \o <<"_">> \o Pad2(dt.month)

KeySlots == [sku : Skus, start : Starts]

\* the key of each of the two slots
MakeEventKeys ==
    /\ k_stage = "slots"
    /\ k_keys = <<>>
    /\ k_keys' = [i \in 1..2 |-> make_event_key(k_slots[i].sku, k_slots[i].start)]
    /\ UNCHANGED <<k_stage, k_slots, k_codes>>

\* slot_to_booking_and_tags on each of the two slots: the code it builds
SlotCodes ==
    /\ k_stage = "slots"
    /\ k_codes = <<>>
    /\ k_codes' = [i \in 1..2 |-> SlotCode(k_slots[i])]
    /\ UNCHANGED <<k_stage, k_slots, k_keys>>

InitKeys ==
    /\ k_stage = "slots"
    /\ k_slots \in [1..2 -> KeySlots]
    /\ k_keys = <<>>
    /\ k_codes = <<>>
    /\ RollIdle
    /\ PagerIdle
    /\ TripIdle
    /\ aborted = FALSE
    /\ CustIdle
    /\ RouteIdle
    /\ SyncIdle
    /\ DiffIdle
    /\ AggIdle
    /\ OccIdle

KeysFrame == UNCHANGED <<syncvars, diffvars, aggvars, occvars, aborted, custvars, routevars,
                         rollvars, pagervars, tripvars>>

NextKeys ==
    \/ MakeEventKeys /\ KeysFrame
    \/ SlotCodes /\ KeysFrame

SpecKeys == InitKeys /\ [][NextKeys]_vars

\* C36 (as claimed): two slots with the same sku and start get the same key
\* and the same code, and two slots that differ in sku or in start get
\* different keys and different codes.
C36_KeysCollisionFree ==
    /\ k_keys # <<>> => (k_keys[1] = k_keys[2] <=> k_slots[1] = k_slots[2])
    /\ k_codes # <<>> => (k_codes[1] = k_codes[2] <=> k_slots[1] = k_slots[2])

\* ======================================================================
\* CFToGCalSync: upsert and delete_range   (cf_sync.py, gcal_client.py)
\* ======================================================================

MaxRows == 3
min_weeks_for_recurrence == 2

WEEKDAY_CODES == <<"MO", "TU">>
block_statuses == {"STOP"}

\* rows of the booking index inside the window, all of one item at 09:00:
\* the booking code is the row's place in the index
IndexRows == [status_id : {"PAID", "STOP"}, week : 1..2, weekday : 1..2]

\* f"cfseries:{item_id}:{WEEKDAY_CODES[start_dt.weekday()]}:{start_dt.strftime('%H%M')}"
_series_key(item_id, row) ==
    <<"c", "f", "s", "e", "r", "i", "e", "s", ":">>
    \o <<item_id, ":", WEEKDAY_CODES[row.weekday], ":", "0900">>

\* f"cfblock:{start_iso}|{end_iso}"
_block_key(row) ==
    <<"c", "f", "b", "l", "o", "c", "k", ":">>
    \o <<Digit(row.week), WEEKDAY_CODES[row.weekday], "T09", "|",
         Digit(row.week), WEEKDAY_CODES[row.weekday], "T17">>

\* "extendedProperties": {"private": {"syncKey": f"cf:{booking_code}"}}
event_body_from_cf(booking_code, kind) ==
    [syncKey |-> Some(<<"c", "f", ":">> \o booking_code), kind |-> kind]

\* the body of a blocked row: lines 138-150, the syncKey assigned again
BlockBody(row) ==
    [event_body_from_cf(_block_key(row), "block") EXCEPT !.syncKey = Some(_block_key(row))]

\* aggregate: the blocks, and the other rows grouped by series key
BlockRows(rows) == {i \in 1..Len(rows) : rows[i].status_id \in block_statuses}
GroupRows(rows, skey) ==
    {i \in 1..Len(rows) : i \notin BlockRows(rows) /\ _series_key("1", rows[i]) = skey}
SeriesKeys(rows) == {_series_key("1", rows[i]) : i \in (1..Len(rows)) \ BlockRows(rows)}
IsRecurring(rows, skey) ==
    Cardinality({rows[i].week : i \in GroupRows(rows, skey)}) >= min_weeks_for_recurrence

\* line 165 calls rrule_weekly(byday=..., until=...), whose parameter is
\* by_day: the first group with enough weeks raises TypeError, before any
\* body of the run reaches the calendar
AggregateRaises(rows) == \E skey \in SeriesKeys(rows) : IsRecurring(rows, skey)
single_bodies(rows) ==
    {[body |-> event_body_from_cf(<<Digit(i)>>, "single"), row |-> i] :
        i \in {j \in (1..Len(rows)) \ BlockRows(rows) :
                  ~IsRecurring(rows, _series_key("1", rows[j]))}}
blocks(rows) == {[body |-> BlockBody(rows[i]), row |-> i] : i \in BlockRows(rows)}

\* a set as a list, in some order
RECURSIVE ListOf(_)
ListOf(S) == IF S = {} THEN <<>>
             ELSE LET x == CHOOSE y \in S : TRUE IN <<x>> \o ListOf(S \ {x})

\* GCalClient.upsert: the entries of the window by syncKey, then an update
\* for a body whose key is among them, an insert for every other body
RECURSIVE GCalUpsert(_, _, _)
GCalUpsert(calendar, by_key, event_bodies) ==
    IF event_bodies = <<>> THEN calendar
    ELSE LET body == Head(event_bodies)
             entry == [syncKey |-> body.syncKey, kind |-> body.kind, created |-> "upsert"]
         IN  IF body.syncKey # None /\ body.syncKey[1] \in by_key
             THEN GCalUpsert(calendar, by_key, Tail(event_bodies))
             ELSE GCalUpsert(Append(calendar, entry), by_key, Tail(event_bodies))

ByKey(calendar) ==
    {calendar[i].syncKey[1] : i \in {j \in 1..Len(calendar) : calendar[j].syncKey # None}}

Bodies(tagged) == [i \in 1..Len(tagged) |-> tagged[i].body]

\* CFToGCalSync.upsert: aggregate, then the recurring bodies (none, when
\* aggregate returns), the singles and the blocks are upserted in turn
Upsert ==
    /\ t_stage \in {"start", "upserted"}
    /\ IF AggregateRaises(t_rows)
       THEN /\ t_stage' = "raised"
            /\ UNCHANGED t_cal
       ELSE /\ LET after_r == GCalUpsert(t_cal, ByKey(t_cal), <<>>)
                   after_s == GCalUpsert(after_r, ByKey(after_r),
                                         Bodies(ListOf(single_bodies(t_rows))))
                   after_b == GCalUpsert(after_s, ByKey(after_s),
                                         Bodies(ListOf(blocks(t_rows))))
               IN  t_cal' = after_b
            /\ t_stage' = IF t_stage = "start" THEN "upserted" ELSE "upserted again"
    /\ UNCHANGED t_rows

\* isinstance(key, str) and key.startswith(filter_sync_prefix)
StartsWith(key, prefix) ==
    /\ Len(key) >= Len(prefix)
    /\ SubSeq(key, 1, Len(prefix)) = prefix

\* the entries GCalClient.delete_range leaves: those without a syncKey or
\* with one that does not start with the prefix
KeptByDeleteRange(ev) == ~(ev.syncKey # None /\ StartsWith(ev.syncKey[1], <<"c", "f", ":">>))

\* CFToGCalSync.delete_range with only_cf=True over the same window
DeleteRange ==
    /\ t_stage \in {"upserted", "upserted again", "raised"}
    /\ t_cal' = SelectSeq(t_cal, KeptByDeleteRange)
    /\ t_stage' = "deleted"
    /\ UNCHANGED t_rows

\* entries of other clients: without a syncKey, or with a key of their own
ForeignEntries ==
    { [syncKey |-> None, kind |-> "foreign", created |-> "other"],
      [syncKey |-> Some(<<"x", ":", "1">>), kind |-> "foreign", created |-> "other"] }

InitTrip ==
    /\ t_stage = "start"
    /\ t_rows \in SeqsUpTo(IndexRows, MaxRows)
    /\ t_cal \in {ListOf(S) : S \in SUBSET ForeignEntries}
    /\ RollIdle
    /\ PagerIdle
    /\ KeyIdle
    /\ aborted = FALSE
    /\ CustIdle
    /\ RouteIdle
    /\ SyncIdle
    /\ DiffIdle
    /\ AggIdle
    /\ OccIdle

TripFrame == UNCHANGED <<syncvars, diffvars, aggvars, occvars, aborted, custvars, routevars,
                         rollvars, pagervars, keyvars>>

NextTrip ==
    \/ Upsert /\ TripFrame
    \/ DeleteRange /\ TripFrame

SpecTrip == InitTrip /\ [][NextTrip]_vars

\* C38 (as claimed): delete_range over the window of the upsert leaves no
\* entry that upsert created - recurring series, single bookings and
\* UNAVAILABLE blocks alike - and removes no entry whose sync key lacks the
\* engine prefix.
C38_DeleteRangeRemovesUpserted ==
    [][t_stage' = "deleted" =>
          /\ \A i \in 1..Len(t_cal') : t_cal'[i].created # "upsert"
          /\ \A i \in 1..Len(t_cal) :
                KeptByDeleteRange(t_cal[i]) /\ t_cal[i].created = "other" =>
                    \E j \in 1..Len(t_cal') : t_cal'[j] = t_cal[i]]_vars

\* ======================================================================
\* Ownership of the entries sync_calendar touches   (gcal_client.py)
\* ======================================================================

\* C39 (as claimed): every patch and every delete that a run carries out
\* goes to an entry that has the ownership marker and starts inside
\* [time_min, time_max); an entry without the marker is never patched or
\* deleted.
C39_OnlyOwnedEntriesTouched ==
    [][\A c \in Len(calls) + 1..Len(calls') :
          (calls'[c].op \in {"patch", "delete"} /\ calls'[c].status = 200) =>
              /\ cal[calls'[c].key] # None
              /\ Owned(cal[calls'[c].key][1])
              /\ InWindow(cal[calls'[c].key][1])]_vars

====
